---- MODULE Spec2Model ----
(***************************************************************************)
(* Model of the application-package core of marqo:                         *)
(*   IndexSettingStore   (versioned index settings with bounded history),  *)
(*   two deploy workflows racing on one backend package,                   *)
(*   VespaApplicationPackage.need_bootstrapping / bootstrap / save_to_disk,*)
(*   add_index_setting_and_schema / delete_index_setting_and_schema,       *)
(*   ServiceXml (the manifest services.xml),                               *)
(*   VespaClient.feed_batch / feed_batch_multithreaded                     *)
(* Source: src/src/marqo/core/index_management/vespa_application_package.py*)
(*         src/src/marqo/vespa/vespa_client.py                             *)
(***************************************************************************)
EXTENDS Integers, Sequences, FiniteSets, TLC

VARIABLES
    index_settings,          \* IndexSettingStore._index_settings: name -> record
    index_settings_history,  \* IndexSettingStore._index_settings_history: name -> list
    call,                    \* the last call made on the store and its arguments
    raised,                  \* what that call raised ("none" when it returned)
    deployed,                \* the settings files of the package active on the backend
    writer,                  \* each deploy workflow: position, package object, files
    disk,                    \* the files of the package directory (app_root_path)
    is_configured,           \* VespaApplicationPackage.is_configured
    marqo_config,            \* MarqoConfigStore._config: <<>> (None) or <<config>>
    pkg_call,                \* the last call made on the package object
    manifest,                \* ServiceXml._tree: the documents and the container
    schemas,                 \* the files of schemas/: schema name -> text
    overrides,               \* validation-overrides.xml: <<>> (absent) or <<until>>
    bundle,                  \* search/query-profiles/default.xml and components/
    batch,                   \* feed_batch: the ids of the documents of the batch
    connections,             \* feed_batch: concurrency (max_threads of the thread pool)
    feed_mode,               \* "async" (feed_batch) or "threads" (feed_batch_multithreaded)
    tasks,                   \* one task per document: position and result
    semaphore,               \* the free permits of asyncio.Semaphore (idle pool threads)
    completed,               \* the task indices in the order the tasks completed
    feed_result,             \* what the feed call returned or raised
    response,                \* the HTTP response handed to _raise_for_status
    status_call,             \* what _raise_for_status did, and what status_code gave
    available_models,        \* s2_inference._available_models: cache key -> entry
    lock,                    \* s2_inference.lock: "" (free) or the thread holding it
    threads,                 \* each request thread in _update_available_models
    clock,                   \* datetime.datetime.now(), as a counter
    cache_call,              \* the last validation, eject_model or clear_loaded_models
    marqo_index,             \* the MarqoIndex handed to the StructuredVespaIndex methods
    marqo_query,             \* the MarqoQuery object handed to to_vespa_query
    index_call,              \* the last call of a vespa index method and its result
    docs,                    \* the caller's list of documents handed to download_images
    download_call            \* the last download_images call and its result

storeVars == <<index_settings, index_settings_history, call, raised>>

raceVars == <<deployed, writer>>

filesVars == <<manifest, schemas, overrides, bundle>>

packageVars == <<disk, is_configured, marqo_config, pkg_call, filesVars>>

feedVars == <<batch, connections, feed_mode, tasks, semaphore, completed, feed_result>>

statusVars == <<response, status_call>>

\* The variables of the components modelled after the document feed.
cacheVars == <<available_models, lock, threads, clock, cache_call>>

indexVars == <<marqo_index, marqo_query, index_call>>

downloadVars == <<docs, download_call>>

restVars == <<statusVars, cacheVars, indexVars, downloadVars>>

vars == <<storeVars, raceVars, packageVars, feedVars, restVars>>

----------------------------------------------------------------------------
(* Bounds and input sets *)

\* Highest target version a save may produce in the model.
MaxVersion == 4

\* Index names used as dictionary keys.
Names == {"idx_a", "idx_b"}

\* The settings payload of a record (every field but name and version).
Settings == {"s1", "s2"}

\* Optional[int] without a value (MarqoIndex.version is None).
None == -1

_HISTORY_VERSION_LIMIT == 3

\* The records a caller may pass to save_index_setting.
InputRecords ==
    [name : Names, version : {None} \cup (0 .. MaxVersion), settings : Settings]

----------------------------------------------------------------------------
(* Python dictionaries and lists *)

\* d[k] = v
DictSet(d, k, v) == [x \in (DOMAIN d) \cup {k} |-> IF x = k THEN v ELSE d[x]]

\* del d[k]
DictDel(d, k) == [x \in (DOMAIN d) \ {k} |-> d[x]]

\* {} (json.loads('{}'))
EmptyDict == [x \in {} |-> None]

\* lst[:n]
Take(lst, n) == SubSeq(lst, 1, IF Len(lst) < n THEN Len(lst) ELSE n)

----------------------------------------------------------------------------
(* IndexSettingStore *)

\* (index_setting.version or 0) + 1 : None and 0 are both falsy
TargetVersion(index_setting) ==
    (IF index_setting.version = None \/ index_setting.version = 0
        THEN 0 ELSE index_setting.version) + 1

\* index_setting.copy(deep=True, update={'version': target_version})
CopyWithVersion(index_setting, target_version) ==
    [index_setting EXCEPT !.version = target_version]

\* _move_to_history with the record appended instead of inserted at index 0
move_to_history_appended(settings, history, index_setting_name) ==
    IF index_setting_name \in DOMAIN history
        THEN DictSet(history, index_setting_name,
                     Take(history[index_setting_name] \o <<settings[index_setting_name]>>,
                          _HISTORY_VERSION_LIMIT))
        ELSE DictSet(history, index_setting_name, <<settings[index_setting_name]>>)

\* _move_to_history with the slice one too long
move_to_history_uncut(settings, history, index_setting_name) ==
    IF index_setting_name \in DOMAIN history
        THEN DictSet(history, index_setting_name,
                     Take(<<settings[index_setting_name]>> \o history[index_setting_name],
                          _HISTORY_VERSION_LIMIT + 1))
        ELSE DictSet(history, index_setting_name, <<settings[index_setting_name]>>)

\* _move_to_history: the history map after the current record of the name is
\* pushed on the front of its history, cut to _HISTORY_VERSION_LIMIT
_move_to_history(settings, history, index_setting_name) ==
    IF index_setting_name \in DOMAIN history
        THEN DictSet(history, index_setting_name,
                     Take(<<settings[index_setting_name]>> \o history[index_setting_name],
                          _HISTORY_VERSION_LIMIT))
        ELSE DictSet(history, index_setting_name, <<settings[index_setting_name]>>)

\* The version check accepting every version above the current one
VersionConflict_gaps(settings, name, target_version) ==
    IF name \in DOMAIN settings
        THEN settings[name].version >= target_version
        ELSE target_version # 1

\* The version check of save_index_setting: TRUE when the call must raise
VersionConflict(settings, name, target_version) ==
    IF name \in DOMAIN settings
        THEN settings[name].version + 1 # target_version
        ELSE target_version # 1

\* The raise placed after the history of the name has been cleaned
Rejected_after_clean(settings, history, name) ==
    [settings |-> settings,
     history |-> IF name \in DOMAIN history THEN DictDel(history, name) ELSE history,
     raised |-> "OperationConflictError"]

\* raise OperationConflictError: nothing has been assigned before the raise
Rejected(settings, history, name) ==
    [settings |-> settings, history |-> history, raised |-> "OperationConflictError"]

\* The history of a deleted index kept when the index is created again
CleanHistory_kept(history, name) == history

\* if name in self._index_settings_history: del self._index_settings_history[name]
CleanHistory(history, name) ==
    IF name \in DOMAIN history THEN DictDel(history, name) ELSE history

\* save_index_setting on a store (settings, history): the store after the call
\* and what the call raised
save_index_setting(settings, history, index_setting) ==
    LET target_version == TargetVersion(index_setting)
        name == index_setting.name
        stored == CopyWithVersion(index_setting, target_version)
    IN  IF VersionConflict(settings, name, target_version)
            THEN Rejected(settings, history, name)
            ELSE [settings |-> DictSet(settings, name, stored),
                  history |-> IF name \in DOMAIN settings
                                 THEN _move_to_history(settings, history, name)
                                 ELSE CleanHistory(history, name),
                  raised |-> "none"]

\* delete_index_setting that forgets the history
delete_without_history(settings, history, index_setting_name) ==
    IF index_setting_name \notin DOMAIN settings
        THEN [settings |-> settings, history |-> history, raised |-> "none"]
        ELSE [settings |-> DictDel(settings, index_setting_name),
              history |-> history, raised |-> "none"]

\* delete_index_setting on a store (settings, history)
delete_index_setting(settings, history, index_setting_name) ==
    IF index_setting_name \notin DOMAIN settings
        THEN [settings |-> settings, history |-> history, raised |-> "none"]
        ELSE [settings |-> DictDel(settings, index_setting_name),
              history |-> _move_to_history(settings, history, index_setting_name),
              raised |-> "none"]

----------------------------------------------------------------------------
(* Specification of one store object, starting empty *)

\* The store before a call, as far as the call's contract speaks of it.
Before(name) ==
    [existed |-> name \in DOMAIN index_settings,
     had_history |-> name \in DOMAIN index_settings_history]

NoCall ==
    [op |-> "init", name |-> "", version |-> None, settings |-> "",
     existed |-> FALSE, had_history |-> FALSE]

Called(op, name, version, settings) ==
    [op |-> op, name |-> name, version |-> version, settings |-> settings,
     existed |-> Before(name).existed, had_history |-> Before(name).had_history]

StoreInit ==
    /\ index_settings = EmptyDict
    /\ index_settings_history = EmptyDict
    /\ call = NoCall
    /\ raised = "none"

SaveIndexSetting ==
    \E index_setting \in InputRecords :
        /\ TargetVersion(index_setting) <= MaxVersion
        /\ LET r == save_index_setting(index_settings, index_settings_history,
                                       index_setting)
           IN  /\ index_settings' = r.settings
               /\ index_settings_history' = r.history
               /\ raised' = r.raised
        /\ call' = Called("save", index_setting.name, index_setting.version,
                           index_setting.settings)
        /\ UNCHANGED <<raceVars, packageVars, feedVars, restVars>>

DeleteIndexSetting ==
    \E index_setting_name \in Names :
        /\ LET r == delete_index_setting(index_settings, index_settings_history,
                                         index_setting_name)
           IN  /\ index_settings' = r.settings
               /\ index_settings_history' = r.history
               /\ raised' = r.raised
        /\ call' = Called("delete", index_setting_name, None, "")
        /\ UNCHANGED <<raceVars, packageVars, feedVars, restVars>>

StoreNext == SaveIndexSetting \/ DeleteIndexSetting

----------------------------------------------------------------------------
(* Two deploy workflows on one backend.  Each workflow downloads the active  *)
(* package, builds a VespaApplicationPackage from it, saves its record in    *)
(* that object's store, writes the package to its own directory and deploys  *)
(* the directory.  Every step that talks to the backend is a step of its own.*)

Writers == {"w1", "w2"}

\* The index both workflows write.
RaceName == "idx_a"

\* The settings each workflow writes: they tell the two records apart.
WriterSettings(w) == IF w = "w1" THEN "s1" ELSE "s2"

EmptyStore == [settings |-> EmptyDict, history |-> EmptyDict]

\* The store after the index has been saved n times, from an empty store.
RECURSIVE SavedTimes(_, _)
SavedTimes(n, settings) ==
    IF n = 0
        THEN EmptyStore
        ELSE LET prev == SavedTimes(n - 1, settings)
                 r == save_index_setting(prev.settings, prev.history,
                          [name |-> RaceName, settings |-> settings,
                           version |-> IF n = 1 THEN None ELSE n - 1])
             IN  [settings |-> r.settings, history |-> r.history]

WriterStart(w, version) ==
    [pc |-> "start",
     store |-> EmptyStore,
     files |-> EmptyStore,
     index_setting |-> [name |-> RaceName, version |-> version,
                        settings |-> WriterSettings(w)],
     result |-> "none"]

NoRace ==
    /\ deployed = EmptyStore
    /\ writer = [w \in Writers |-> WriterStart(w, None)]

\* Both workflows have read the index at the same version C from the backend.
RaceInit ==
    \E C \in 1 .. MaxVersion - 1, settings \in Settings :
        /\ deployed = SavedTimes(C, settings)
        /\ writer = [w \in Writers |-> WriterStart(w, C)]

\* download_application, then VespaApplicationPackage.__init__ on the directory
DownloadApplication(w) ==
    /\ writer[w].pc = "start"
    /\ writer' = [writer EXCEPT ![w].pc = "loaded", ![w].store = deployed,
                                ![w].files = deployed]
    /\ UNCHANGED <<deployed, storeVars, packageVars, feedVars, restVars>>

\* add_index_setting_and_schema: save_index_setting on the object's own store
AddIndexSetting(w) ==
    /\ writer[w].pc = "loaded"
    /\ LET r == save_index_setting(writer[w].store.settings, writer[w].store.history,
                                   writer[w].index_setting)
       IN  writer' = [writer EXCEPT
                ![w].pc = IF r.raised = "none" THEN "saved" ELSE "failed",
                ![w].store = [settings |-> r.settings, history |-> r.history],
                ![w].result = r.raised]
    /\ UNCHANGED <<deployed, storeVars, packageVars, feedVars, restVars>>

\* save_to_disk: the store written to the two files of the workflow's directory
WriterSaveToDisk(w) ==
    /\ writer[w].pc = "saved"
    /\ writer' = [writer EXCEPT ![w].pc = "on_disk", ![w].files = writer[w].store]
    /\ UNCHANGED <<deployed, storeVars, packageVars, feedVars, restVars>>

\* deploy_application: the directory is posted and becomes the active package
DeployApplication(w) ==
    /\ writer[w].pc = "on_disk"
    /\ deployed' = writer[w].files
    /\ writer' = [writer EXCEPT ![w].pc = "deployed"]
    /\ UNCHANGED <<storeVars, packageVars, feedVars, restVars>>

RaceNext ==
    \E w \in Writers :
        \/ DownloadApplication(w)
        \/ AddIndexSetting(w)
        \/ WriterSaveToDisk(w)
        \/ DeployApplication(w)

----------------------------------------------------------------------------
(* VespaApplicationPackage: the Marqo config and need_bootstrapping.         *)
(* A version string is the sequence of its dot-separated numbers, of length  *)
(* 1 to 3 (minor and patch are optional).  An Optional[MarqoConfig] is <<>>  *)
(* for None and <<config>> otherwise.                                        *)

VersionStrings ==
    {<<1, 9, 9>>, <<2>>, <<2, 0, 0>>, <<2, 0, 1>>, <<2, 12>>}

\* The fields of a config beyond version (MarqoConfig.Config.extra = "allow"),
\* as a set of <<key, value>> pairs.
NoExtra == {}

SomeExtra == {<<"telemetry", "on">>}

\* MarqoConfig(version=version): a config with the version and no other field
MarqoConfig(version) == [version |-> version, extra |-> NoExtra]

\* MarqoConfig.parse_raw of a document that carries fields beyond version
LoadedConfig(version, extra) == [version |-> version, extra |-> extra]

OptionalConfigs == {<<>>} \cup {<<MarqoConfig(v)>> : v \in VersionStrings}

\* update_version without the assignment of the new version
update_version_kept(config, version) == config

\* MarqoConfigStore.update_version
update_version(config, version) == <<MarqoConfig(version)>>

\* semver.VersionInfo.parse(version, optional_minor_and_patch=True)
SemverParse(version) ==
    [major |-> version[1],
     minor |-> IF Len(version) >= 2 THEN version[2] ELSE 0,
     patch |-> IF Len(version) >= 3 THEN version[3] ELSE 0]

\* VersionInfo.__lt__ : precedence by major, then minor, then patch
SemverLess(a, b) ==
    \/ a.major < b.major
    \/ a.major = b.major /\ a.minor < b.minor
    \/ a.major = b.major /\ a.minor = b.minor /\ a.patch < b.patch

\* app_version with the legacy document looked at first
AppVersion_legacy_first(configured, config, marqo_config_doc) ==
    IF marqo_config_doc # <<>>
        THEN marqo_config_doc[1].version
        ELSE IF configured /\ config # <<>>
                THEN config[1].version
                ELSE <<2, 0, 0>>

\* app_version of need_bootstrapping
AppVersion(configured, config, marqo_config_doc) ==
    IF configured /\ config # <<>>
        THEN config[1].version
        ELSE IF marqo_config_doc # <<>>
                THEN marqo_config_doc[1].version
                ELSE <<2, 0, 0>>

\* the return expression of need_bootstrapping with <= for <
need_bootstrapping_or_equal(configured, config, marqo_version, doc, allow_downgrade) ==
    LET marqo_sem_version == SemverParse(marqo_version)
        app_sem_version == SemverParse(AppVersion(configured, config, doc))
    IN  \/ ~SemverLess(marqo_sem_version, app_sem_version)
        \/ SemverLess(marqo_sem_version, app_sem_version) /\ allow_downgrade

\* the return expression of need_bootstrapping with allow_downgrade taken as set
need_bootstrapping_downgrading(configured, config, marqo_version, doc, allow_downgrade) ==
    LET marqo_sem_version == SemverParse(marqo_version)
        app_sem_version == SemverParse(AppVersion(configured, config, doc))
    IN  \/ SemverLess(app_sem_version, marqo_sem_version)
        \/ SemverLess(marqo_sem_version, app_sem_version)

\* need_bootstrapping on a package object (is_configured, config store)
need_bootstrapping(configured, config, marqo_version, doc, allow_downgrade) ==
    LET marqo_sem_version == SemverParse(marqo_version)
        app_sem_version == SemverParse(AppVersion(configured, config, doc))
    IN  \/ SemverLess(app_sem_version, marqo_sem_version)
        \/ SemverLess(marqo_sem_version, app_sem_version) /\ allow_downgrade

\* The lists of legacy index records handed to bootstrap.
ExistingIndexSettings ==
    {<<>>,
     <<[name |-> "idx_a", version |-> None, settings |-> "s1"]>>,
     <<[name |-> "idx_a", version |-> 1, settings |-> "s1"]>>,
     <<[name |-> "idx_a", version |-> None, settings |-> "s1"],
       [name |-> "idx_b", version |-> None, settings |-> "s2"]>>}

\* for index in existing_index_settings: save_index_setting(index)
\* The loop ends at the first save that raises.
RECURSIVE SaveAll(_, _, _)
SaveAll(settings, history, indexes) ==
    IF indexes = <<>>
        THEN [settings |-> settings, history |-> history, raised |-> "none"]
        ELSE LET r == save_index_setting(settings, history, Head(indexes))
             IN  IF r.raised # "none"
                    THEN r
                    ELSE SaveAll(r.settings, r.history, Tail(indexes))

----------------------------------------------------------------------------
(* ServiceXml: the manifest services.xml as an element tree.  The model keeps *)
(* the children of content/documents and the children of the container.      *)
(* An element is a record; a list of elements is a sequence in file order.    *)

\* The first of a set of list indices, 0 when the set is empty.
FirstIndex(found) ==
    IF found = {} THEN 0 ELSE CHOOSE i \in found : \A j \in found : i <= j

\* ET.SubElement(self._documents, 'document') with type and mode set
Document(name) == [tag |-> "document", type |-> name, mode |-> "index", children |-> <<>>]

\* Element.find('document[@type=name]'): <<>> (None) or <<first match>>
FindDocument(documents, name) ==
    LET i == FirstIndex({j \in DOMAIN documents : documents[j].type = name})
    IN  IF i = 0 THEN <<>> ELSE <<documents[i]>>

\* The truth value of the result of find: None is false, and an Element is
\* true only when it has children.
ElementTruth(found) == found # <<>> /\ Len(found[1].children) > 0

\* ServiceXml.add_schema
add_schema(documents, name) ==
    IF ElementTruth(FindDocument(documents, name))
        THEN documents
        ELSE Append(documents, Document(name))

\* remove_schema that removes the first matching document only
remove_schema_first(documents, name) ==
    LET i == FirstIndex({j \in DOMAIN documents : documents[j].type = name})
    IN  IF i = 0
            THEN documents
            ELSE SubSeq(documents, 1, i - 1) \o SubSeq(documents, i + 1, Len(documents))

\* ServiceXml.remove_schema: every document found by findall is removed
remove_schema(documents, name) == SelectSeq(documents, LAMBDA d : d.type # name)

\* An element of the container: tag, id attribute, the other attributes or
\* the text, and the child elements.
Element(tag, id, attr, children) == [tag |-> tag, id |-> id, attr |-> attr, children |-> children]

\* Element.clear(): attributes, text and children are dropped
Cleared(child) == Element(child.tag, "", "", <<>>)

\* ServiceXml._add_component: element with id and bundle
Component(tag, name, children) == Element(tag, name, "bundle=marqo-custom-components", children)

\* The chain _config_search appends to the search element
MarqoChain ==
    Element("chain", "marqo", "inherits=vespa",
            <<Component("searcher", "ai.marqo.search.HybridSearcher", <<>>)>>)

\* The handler _config_index_setting_components appends to the container
IndexSettingHandler ==
    Component("handler", "ai.marqo.index.IndexSettingRequestHandler",
              <<Element("binding", "", "http://*/index-settings/*", <<>>),
                Element("binding", "", "http://*/index-settings", <<>>)>>)

\* The component _config_index_setting_components appends to the container
IndexSettingComponent ==
    Component("component", "ai.marqo.index.IndexSettings",
              <<Element("config", "", "name=ai.marqo.index.index-settings",
                        <<Element("indexSettingsFile", "", "marqo_index_settings.json", <<>>),
                          Element("indexSettingsHistoryFile", "",
                                  "marqo_index_settings_history.json", <<>>)>>)>>)

\* _cleanup_container_config that leaves the search element as it is
cleanup_container_config_search_kept(container) ==
    LET kept == SelectSeq(container,
                          LAMBDA c : c.tag \in {"document-api", "search", "node"})
    IN  [i \in 1 .. Len(kept) |->
            IF kept[i].tag = "document-api"
                THEN Cleared(kept[i])
                ELSE kept[i]]

\* ServiceXml._cleanup_container_config on the children of the container
_cleanup_container_config(container) ==
    LET kept == SelectSeq(container,
                          LAMBDA c : c.tag \in {"document-api", "search", "node"})
    IN  [i \in 1 .. Len(kept) |->
            IF kept[i].tag \in {"document-api", "search"}
                THEN Cleared(kept[i])
                ELSE kept[i]]

\* ServiceXml._config_search: _ensure_only_one('container/search') raises
\* unless the container has exactly one search element.
_config_search(container) ==
    LET found == {i \in DOMAIN container : container[i].tag = "search"}
    IN  IF Cardinality(found) # 1
            THEN [container |-> container, raised |-> "InternalError"]
            ELSE LET i == CHOOSE j \in found : TRUE
                 IN  [container |-> [container EXCEPT
                                        ![i].children = Append(@, MarqoChain)],
                      raised |-> "none"]

\* ServiceXml._config_index_setting_components
_config_index_setting_components(container) ==
    container \o <<IndexSettingHandler, IndexSettingComponent>>

\* ServiceXml.config_components: the three steps in order; a raise leaves the
\* tree as the steps before it made it.
config_components(container) ==
    LET searched == _config_search(_cleanup_container_config(container))
    IN  IF searched.raised # "none"
            THEN searched
            ELSE [container |-> _config_index_setting_components(searched.container),
                  raised |-> "none"]

\* The services.xml of a new application: no documents, and a container with
\* a node and empty document-api and search elements.
FreshContainer ==
    <<Element("node", "", "hostalias=node1", <<>>),
      Element("document-api", "", "", <<>>),
      Element("search", "", "", <<>>)>>

FreshServicesXml == [documents |-> <<>>, container |-> FreshContainer]

----------------------------------------------------------------------------
(* VespaApplicationPackage: the object and the files of its directory *)

\* MarqoIndex.schema_name: one schema name per index name
SchemaName(name) == IF name = "idx_a" THEN "marqo__idx_a" ELSE "marqo__idx_b"

\* The text of a schema file.
SchemaTexts == {"sd1", "sd2"}

\* The values of datetime.utcnow().strftime('%Y-%m-%d').
Days == {"2024-06-01", "2024-06-02"}

\* The files _add_default_query_profile and _copy_components_jar write.
NoBundle == [query_profile |-> <<>>, components |-> {}]

MarqoBundle ==
    [query_profile |-> <<"default">>,
     components |-> {"marqo-custom-components-deploy.jar"}]

\* has_schema
has_schema(name) == name \in DOMAIN schemas

\* has_index
has_index(name) == name \in DOMAIN index_settings

NoPackage ==
    /\ disk = [marqo_config |-> <<>>, index_settings |-> EmptyDict,
               index_settings_history |-> EmptyDict, services_xml |-> FreshServicesXml]
    /\ is_configured = FALSE
    /\ marqo_config = <<>>
    /\ pkg_call = [op |-> "none"]
    /\ manifest = FreshServicesXml
    /\ schemas = EmptyDict
    /\ overrides = <<>>
    /\ bundle = NoBundle

\* VespaApplicationPackage.__init__ on a directory with the given
\* marqo_config.json (<<>> when absent) and services.xml, and with no index
\* settings files
PackageLoaded(config_file, services_xml) ==
    /\ disk = [marqo_config |-> config_file, index_settings |-> EmptyDict,
               index_settings_history |-> EmptyDict, services_xml |-> services_xml]
    /\ is_configured = (config_file # <<>>)
    /\ marqo_config = config_file
    /\ manifest = services_xml
    /\ index_settings = EmptyDict
    /\ index_settings_history = EmptyDict
    /\ call = NoCall
    /\ raised = "none"
    /\ pkg_call = [op |-> "__init__"]
    /\ schemas = EmptyDict
    /\ overrides = <<>>
    /\ bundle = NoBundle

\* The marqo_config.json files a directory may hold: none, one with only a
\* version, one with fields beyond the version.
ConfigFiles == OptionalConfigs \cup {<<LoadedConfig(<<2, 0, 0>>, SomeExtra)>>}

PackageInit ==
    \E config_file \in ConfigFiles : PackageLoaded(config_file, FreshServicesXml)

NeedBootstrapping ==
    \E marqo_version \in VersionStrings, marqo_config_doc \in OptionalConfigs,
       allow_downgrade \in BOOLEAN :
        /\ pkg_call' = [op |-> "need_bootstrapping",
                        marqo_version |-> marqo_version,
                        marqo_config_doc |-> marqo_config_doc,
                        allow_downgrade |-> allow_downgrade,
                        result |-> need_bootstrapping(is_configured, marqo_config,
                                       marqo_version, marqo_config_doc,
                                       allow_downgrade)]
        /\ UNCHANGED <<disk, is_configured, marqo_config, filesVars, storeVars, raceVars, feedVars, restVars>>

\* bootstrap(marqo_version, existing): the legacy records go through the
\* store, the query profile and the components jar are written, the container
\* is configured, then the version is stamped; is_configured is not assigned.
\* A step that raises ends the call.
BootstrapCall(marqo_version, existing) ==
    LET r == IF ~is_configured /\ existing # <<>>
                THEN SaveAll(index_settings, index_settings_history, existing)
                ELSE [settings |-> index_settings,
                      history |-> index_settings_history, raised |-> "none"]
        c == config_components(manifest.container)
    IN  /\ index_settings' = r.settings
        /\ index_settings_history' = r.history
        /\ IF r.raised # "none"
              THEN /\ UNCHANGED <<bundle, manifest, marqo_config>>
                   /\ pkg_call' = [op |-> "bootstrap", marqo_version |-> marqo_version,
                                   existing |-> existing, raised |-> r.raised]
              ELSE /\ bundle' = MarqoBundle
                   /\ manifest' = [manifest EXCEPT !.container = c.container]
                   /\ marqo_config' = IF c.raised = "none"
                                         THEN update_version(marqo_config, marqo_version)
                                         ELSE marqo_config
                   /\ pkg_call' = [op |-> "bootstrap", marqo_version |-> marqo_version,
                                   existing |-> existing, raised |-> c.raised]
        /\ UNCHANGED <<disk, is_configured, schemas, overrides, call, raised, raceVars, feedVars, restVars>>

Bootstrap ==
    \E marqo_version \in VersionStrings, existing \in ExistingIndexSettings :
        BootstrapCall(marqo_version, existing)

\* save_to_disk: services.xml is written first; MarqoConfigStore.save_to_file
\* raises when no config is set, before marqo_config.json and the index
\* settings files are written
SaveToDisk ==
    /\ IF marqo_config = <<>>
          THEN /\ pkg_call' = [op |-> "save_to_disk", raised |-> "InternalError"]
               /\ disk' = [disk EXCEPT !.services_xml = manifest]
          ELSE /\ pkg_call' = [op |-> "save_to_disk", raised |-> "none"]
               /\ disk' = [marqo_config |-> marqo_config,
                           index_settings |-> index_settings,
                           index_settings_history |-> index_settings_history,
                           services_xml |-> manifest]
    /\ UNCHANGED <<is_configured, marqo_config, filesVars, storeVars, raceVars, feedVars, restVars>>

\* The records and versions a caller passes to add_index_setting_and_schema.
PackageRecords == [name : Names, version : {None, 1, 2}, settings : {"s1"}]

\* add_index_setting_and_schema with the schema file written before the
\* store is asked
AddIndexSettingAndSchemaCall_file_first(index_setting, schema) ==
    LET r == save_index_setting(index_settings, index_settings_history,
                                index_setting)
        schema_name == SchemaName(index_setting.name)
    IN  /\ index_settings' = r.settings
        /\ index_settings_history' = r.history
        /\ schemas' = DictSet(schemas, schema_name, schema)
        /\ manifest' = IF r.raised # "none"
                          THEN manifest
                          ELSE [manifest EXCEPT
                                   !.documents = add_schema(@, schema_name)]
        /\ pkg_call' = [op |-> "add_index_setting_and_schema",
                        name |-> index_setting.name,
                        version |-> index_setting.version,
                        schema |-> schema, raised |-> r.raised]
        /\ UNCHANGED <<disk, is_configured, marqo_config, overrides, bundle,
                       call, raised, raceVars, feedVars, restVars>>

\* add_index_setting_and_schema: save_index_setting, then the schema file is
\* written (or overwritten), then the schema is added to the manifest; a raise
\* of save_index_setting ends the call.
AddIndexSettingAndSchemaCall(index_setting, schema) ==
    LET r == save_index_setting(index_settings, index_settings_history,
                                index_setting)
        schema_name == SchemaName(index_setting.name)
    IN  /\ index_settings' = r.settings
        /\ index_settings_history' = r.history
        /\ IF r.raised # "none"
              THEN UNCHANGED <<schemas, manifest>>
              ELSE /\ schemas' = DictSet(schemas, schema_name, schema)
                   /\ manifest' = [manifest EXCEPT
                                      !.documents = add_schema(@, schema_name)]
        /\ pkg_call' = [op |-> "add_index_setting_and_schema",
                        name |-> index_setting.name,
                        version |-> index_setting.version,
                        schema |-> schema, raised |-> r.raised]
        /\ UNCHANGED <<disk, is_configured, marqo_config, overrides, bundle,
                       call, raised, raceVars, feedVars, restVars>>

\* delete_index_setting_and_schema with the validation override written
\* before the index is looked up
DeleteIndexSettingAndSchemaCall_override_first(index_name, today) ==
    /\ overrides' = <<today>>
    /\ IF index_name \notin DOMAIN index_settings
          THEN /\ pkg_call' = [op |-> "delete_index_setting_and_schema",
                               name |-> index_name,
                               raised |-> "IndexNotFoundError"]
               /\ UNCHANGED <<index_settings, index_settings_history, schemas,
                              manifest>>
          ELSE LET index == index_settings[index_name]
                   r == delete_index_setting(index_settings,
                            index_settings_history, index.name)
               IN  /\ index_settings' = r.settings
                   /\ index_settings_history' = r.history
                   /\ schemas' = DictDel(schemas, SchemaName(index.name))
                   /\ manifest' = [manifest EXCEPT !.documents =
                                      remove_schema(@, SchemaName(index.name))]
                   /\ pkg_call' = [op |-> "delete_index_setting_and_schema",
                                   name |-> index_name, today |-> today,
                                   raised |-> "none"]
    /\ UNCHANGED <<disk, is_configured, marqo_config, bundle, call, raised,
                   raceVars, feedVars, restVars>>

\* delete_index_setting_and_schema: get_index, IndexNotFoundError when there
\* is no current record; else the record is moved to the history, the schema
\* file is deleted, the schema leaves the manifest and validation-overrides.xml
\* is written with the day of the call.
DeleteIndexSettingAndSchemaCall(index_name, today) ==
    /\ IF index_name \notin DOMAIN index_settings
          THEN /\ pkg_call' = [op |-> "delete_index_setting_and_schema",
                               name |-> index_name,
                               raised |-> "IndexNotFoundError"]
               /\ UNCHANGED <<index_settings, index_settings_history, schemas,
                              manifest, overrides>>
          ELSE LET index == index_settings[index_name]
                   r == delete_index_setting(index_settings,
                            index_settings_history, index.name)
               IN  /\ index_settings' = r.settings
                   /\ index_settings_history' = r.history
                   /\ schemas' = DictDel(schemas, SchemaName(index.name))
                   /\ manifest' = [manifest EXCEPT !.documents =
                                      remove_schema(@, SchemaName(index.name))]
                   /\ overrides' = <<today>>
                   /\ pkg_call' = [op |-> "delete_index_setting_and_schema",
                                   name |-> index_name, today |-> today,
                                   raised |-> "none"]
    /\ UNCHANGED <<disk, is_configured, marqo_config, bundle, call, raised,
                   raceVars, feedVars, restVars>>

AddIndexSettingAndSchema ==
    \E index_setting \in PackageRecords, schema \in SchemaTexts :
        AddIndexSettingAndSchemaCall(index_setting, schema)

DeleteIndexSettingAndSchema ==
    \E index_name \in Names, today \in Days :
        DeleteIndexSettingAndSchemaCall(index_name, today)

\* add_index_setting_and_schema of one index, as a workflow does before it
\* saves the package
AddOneIndexSettingAndSchema ==
    \E index_setting \in {r \in PackageRecords : r.name = "idx_a"},
       schema \in SchemaTexts :
        AddIndexSettingAndSchemaCall(index_setting, schema)

\* The containers a services.xml may hold: the one of a new application, one
\* without document-api, one configured by hand (a second node, attributes and
\* children on document-api and search, a chain, a handler, a component and an
\* element of another tag), one without a search element, one with two.
StaleChain == Element("chain", "old", "inherits=vespa", <<>>)

Containers ==
    {FreshContainer,
     <<Element("search", "", "", <<>>), Element("node", "", "hostalias=node1", <<>>)>>,
     <<Element("node", "", "hostalias=node1", <<>>),
       Element("node", "", "hostalias=node2", <<>>),
       Element("document-api", "", "", <<Element("abortondocumenterror", "", "false", <<>>)>>),
       Element("search", "", "", <<StaleChain, MarqoChain>>),
       IndexSettingHandler,
       Component("component", "my.Component", <<>>),
       Element("http", "", "", <<>>),
       IndexSettingHandler>>,
     <<Element("node", "", "hostalias=node1", <<>>),
       Element("document-api", "", "", <<>>)>>,
     <<Element("node", "", "hostalias=node1", <<>>),
       Element("search", "", "", <<>>),
       Element("search", "", "", <<StaleChain>>)>>}

\* Highest number of document elements the manifest holds in the model.
MaxDocuments == 3

\* ServiceXml.__init__ on a services.xml with one of the containers
ManifestInit ==
    \E container \in Containers :
        PackageLoaded(<<>>, [documents |-> <<>>, container |-> container])

\* ServiceXml.config_components called on the manifest
ConfigComponents ==
    LET c == config_components(manifest.container)
    IN  /\ manifest' = [manifest EXCEPT !.container = c.container]
        /\ pkg_call' = [op |-> "config_components", raised |-> c.raised]
        /\ UNCHANGED <<disk, is_configured, marqo_config, schemas, overrides,
                       bundle, storeVars, raceVars, feedVars, restVars>>

\* ServiceXml.add_schema called on the manifest
AddSchema ==
    \E name \in {SchemaName(n) : n \in Names} :
        /\ Len(manifest.documents) < MaxDocuments
        /\ manifest' = [manifest EXCEPT !.documents = add_schema(@, name)]
        /\ pkg_call' = [op |-> "add_schema", name |-> name]
        /\ UNCHANGED <<disk, is_configured, marqo_config, schemas, overrides,
                       bundle, storeVars, raceVars, feedVars, restVars>>

\* ServiceXml.remove_schema called on the manifest
RemoveSchema ==
    \E name \in {SchemaName(n) : n \in Names} :
        /\ manifest' = [manifest EXCEPT !.documents = remove_schema(@, name)]
        /\ pkg_call' = [op |-> "remove_schema", name |-> name]
        /\ UNCHANGED <<disk, is_configured, marqo_config, schemas, overrides,
                       bundle, storeVars, raceVars, feedVars, restVars>>

ManifestNext == ConfigComponents \/ AddSchema \/ RemoveSchema

\* A package directory with or without marqo_config.json, before any index
\* is added.
FilesInit ==
    \E config_file \in {<<>>, <<MarqoConfig(<<2, 12>>)>>} :
        PackageLoaded(config_file, FreshServicesXml)

FilesNext == AddIndexSettingAndSchema \/ DeleteIndexSettingAndSchema

SaveNext == AddOneIndexSettingAndSchema \/ SaveToDisk

PackageNext == NeedBootstrapping \/ Bootstrap \/ SaveToDisk

----------------------------------------------------------------------------
(* VespaClient.feed_batch and feed_batch_multithreaded: one feed request per  *)
(* document, at most `connections` of them at a time, completing in any       *)
(* order; the call collects the results when every request has completed.     *)

\* The batches fed: document ids in input order.
Batches ==
    {<<>>, <<"d1">>, <<"d1", "d2">>, <<"d2", "d1">>, <<"d1", "d2", "d3">>}

Concurrencies == {1, 2}

FeedModes == {"async", "threads"}

\* What a feed request meets: a JSON answer with status 200, a JSON answer
\* with a document-specific error status, no answer (httpx.HTTPError), an
\* answer whose body is not JSON with status 500 or with status 200.
Outcomes == {"200", "507", "HTTPError", "NonJson500", "NonJson200"}

NoResult == [kind |-> "pending", id |-> "", status |-> "", error |-> ""]

\* FeedResponse(**resp.json(), status=resp.status_code)
FeedResponse(id, status) == [kind |-> "response", id |-> id, status |-> status, error |-> ""]

Raises(error) == [kind |-> "raised", id |-> "", status |-> "", error |-> error]

\* A function that ends without a return statement
ReturnsNone == [kind |-> "none", id |-> "", status |-> "", error |-> ""]

\* _feed_document_async for one document: a failed post raises VespaError; a
\* body that is not JSON goes to _raise_for_status, which raises for an error
\* status and returns for a 2xx status, and then the coroutine returns None.
_feed_document_async(id, outcome) ==
    CASE outcome \in {"200", "507"} -> FeedResponse(id, outcome)
      [] outcome = "HTTPError" -> Raises("VespaError")
      [] outcome = "NonJson500" -> Raises("VespaStatusError")
      [] outcome = "NonJson200" -> ReturnsNone

\* _feed_document_sync for one document: no exception is caught
_feed_document_sync(id, outcome) ==
    CASE outcome \in {"200", "507"} -> FeedResponse(id, outcome)
      [] outcome = "HTTPError" -> Raises("HTTPError")
      [] outcome \in {"NonJson500", "NonJson200"} -> Raises("JSONDecodeError")

\* The results in the order the tasks completed
collect_as_completed(results, order) ==
    LET bad == FirstIndex({k \in DOMAIN order : results[order[k]].result.kind # "response"})
    IN  IF bad = 0
            THEN [state |-> "returned",
                  responses |-> [k \in 1 .. Len(order) |-> results[order[k]].result],
                  errors |-> \E i \in DOMAIN results : results[i].result.status # "200",
                  error |-> ""]
            ELSE [state |-> "raised", responses |-> <<>>, errors |-> FALSE,
                  error |-> results[order[bad]].result.error]

\* `for task in tasks: result = task.result(); responses.append(...)` and
\* list(executor.map(...)): the results are read in the order of the batch;
\* the first task that raised raises again, and a result of None has no
\* status (AttributeError).
collect(results, order) ==
    LET bad == FirstIndex({i \in DOMAIN results : results[i].result.kind # "response"})
    IN  IF bad = 0
            THEN [state |-> "returned",
                  responses |-> [i \in 1 .. Len(results) |-> results[i].result],
                  errors |-> \E i \in DOMAIN results : results[i].result.status # "200",
                  error |-> ""]
            ELSE [state |-> "raised", responses |-> <<>>, errors |-> FALSE,
                  error |-> IF results[bad].result.kind = "none"
                               THEN "AttributeError"
                               ELSE results[bad].result.error]

NoFeed ==
    /\ batch = <<>>
    /\ connections = 1
    /\ feed_mode = "async"
    /\ tasks = <<>>
    /\ semaphore = 1
    /\ completed = <<>>
    /\ feed_result = [state |-> "none"]

\* The call has created one task per document (asyncio.create_task, or the
\* work items of executor.map) and the semaphore with `connections` permits.
FeedInit ==
    \E b \in Batches, n \in Concurrencies, mode \in FeedModes :
        /\ batch = b
        /\ connections = n
        /\ feed_mode = mode
        /\ tasks = [i \in 1 .. Len(b) |-> [pc |-> "created", result |-> NoResult]]
        /\ semaphore = n
        /\ completed = <<>>
        /\ feed_result = [state |-> "running"]

\* the request posted without a permit being asked for
SendRequest_unbounded(i) ==
    /\ tasks[i].pc = "created"
    /\ semaphore' = semaphore - 1
    /\ tasks' = [tasks EXCEPT ![i].pc = "in_flight"]
    /\ UNCHANGED <<batch, connections, feed_mode, completed, feed_result,
                   storeVars, raceVars, packageVars, restVars>>

\* `async with semaphore` is entered (a pool thread takes the work item) and
\* the request is posted
SendRequest(i) ==
    /\ tasks[i].pc = "created"
    /\ semaphore > 0
    /\ semaphore' = semaphore - 1
    /\ tasks' = [tasks EXCEPT ![i].pc = "in_flight"]
    /\ UNCHANGED <<batch, connections, feed_mode, completed, feed_result,
                   storeVars, raceVars, packageVars, restVars>>

\* The request ends with one of the outcomes: the permit is given back and
\* the task completes with a response, an exception or None.
CompleteRequest(i) ==
    \E outcome \in Outcomes :
        /\ tasks[i].pc = "in_flight"
        /\ semaphore' = semaphore + 1
        /\ tasks' = [tasks EXCEPT
                        ![i].pc = "done",
                        ![i].result = IF feed_mode = "async"
                                         THEN _feed_document_async(batch[i], outcome)
                                         ELSE _feed_document_sync(batch[i], outcome)]
        /\ completed' = Append(completed, i)
        /\ UNCHANGED <<batch, connections, feed_mode, feed_result,
                       storeVars, raceVars, packageVars, restVars>>

\* asyncio.wait(ALL_COMPLETED) is over: the results are collected and the
\* call returns the FeedBatchResponse or raises.  An empty batch returns at
\* once with no responses and no errors.
ReturnBatchResponse ==
    /\ feed_result.state = "running"
    /\ \A i \in DOMAIN tasks : tasks[i].pc = "done"
    /\ feed_result' = collect(tasks, completed)
    /\ UNCHANGED <<batch, connections, feed_mode, tasks, semaphore, completed,
                   storeVars, raceVars, packageVars, restVars>>

FeedNext ==
    \/ \E i \in DOMAIN tasks : SendRequest(i)
    \/ \E i \in DOMAIN tasks : CompleteRequest(i)
    \/ ReturnBatchResponse

----------------------------------------------------------------------------
(* VespaClient._raise_for_status and VespaStatusError.status_code.  A response *)
(* has an HTTP status and a body; a body is text that is not JSON, or a JSON   *)
(* object with some of the keys error-code and message.                       *)

Statuses == {200, 201, 400, 404, 429, 500, 503, 507}

NonJsonBody == [json |-> FALSE, keys |-> {}, error_code |-> ""]

JsonBody(keys, error_code) == [json |-> TRUE, keys |-> keys, error_code |-> error_code]

Bodies ==
    {NonJsonBody,
     JsonBody({}, ""),
     JsonBody({"error-code"}, "INTERNAL_SERVER_ERROR"),
     JsonBody({"message"}, ""),
     JsonBody({"error-code", "message"}, "INVALID_APPLICATION_PACKAGE"),
     JsonBody({"error-code", "message"}, "INTERNAL_SERVER_ERROR")}

Responses == [status : Statuses, body : Bodies]

\* An exception: its class, the class of its cause, and the status of the
\* response the cause carries (None when the cause has no response).
Exception(type, cause, cause_status) == [type |-> type, cause |-> cause, cause_status |-> cause_status]

\* httpx.Response.raise_for_status raises HTTPStatusError for 4xx and 5xx
IsErrorStatus(status) == status >= 400 /\ status <= 599

\* _VESPA_ERROR_CODE_TO_EXCEPTION.get(error_code, VespaError)
ErrorCodeToException(error_code) ==
    IF error_code = "INVALID_APPLICATION_PACKAGE"
        THEN "InvalidVespaApplicationError"
        ELSE "VespaError"

\* _raise_for_error_code: the class found for the code is raised with the
\* cause it was given
_raise_for_error_code(error_code, cause, cause_status) ==
    Exception(ErrorCodeToException(error_code), cause, cause_status)

\* _raise_for_status: <<>> when it returns, <<exception>> when it raises.
\* In the inner handler `except Exception as e` names the exception of the
\* body (JSONDecodeError, KeyError), and that one is passed as the cause.
_raise_for_status(resp) ==
    IF ~IsErrorStatus(resp.status)
        THEN <<>>
        ELSE IF ~resp.body.json
                THEN <<Exception("VespaStatusError", "JSONDecodeError", None)>>
                ELSE IF {"error-code", "message"} \ resp.body.keys # {}
                        THEN <<Exception("VespaStatusError", "KeyError", None)>>
                        ELSE <<_raise_for_error_code(resp.body.error_code,
                                                     "HTTPStatusError", resp.status)>>

\* VespaStatusError.status_code: self.cause.response.status_code, and
\* Exception when the cause has no response
status_code(exception) ==
    IF exception.cause_status # None
        THEN [value |-> exception.cause_status, raised |-> "none"]
        ELSE [value |-> None, raised |-> "Exception"]

NoStatus ==
    /\ response = [status |-> 200, body |-> NonJsonBody]
    /\ status_call = [op |-> "none"]

StatusInit ==
    /\ response \in Responses
    /\ status_call = [op |-> "none"]

\* self._raise_for_status(resp)
RaiseForStatus ==
    /\ status_call.op = "none"
    /\ status_call' = [op |-> "_raise_for_status", raises |-> _raise_for_status(response)]
    /\ UNCHANGED <<response, storeVars, raceVars, packageVars, feedVars, cacheVars, indexVars, downloadVars>>

\* The handler of a VespaStatusError reads its status_code
ReadStatusCode ==
    /\ status_call.op = "_raise_for_status"
    /\ status_call.raises # <<>>
    /\ status_call.raises[1].type = "VespaStatusError"
    /\ status_call' = [op |-> "status_code", raises |-> status_call.raises,
                       result |-> status_code(status_call.raises[1])]
    /\ UNCHANGED <<response, storeVars, raceVars, packageVars, feedVars, cacheVars, indexVars, downloadVars>>

StatusNext == RaiseForStatus \/ ReadStatusCode

----------------------------------------------------------------------------
(* Model cache: s2_inference._available_models and its lock.  Each request   *)
(* thread runs _update_available_models one statement at a time.             *)

\* MARQO_MAX_CPU_MODEL_MEMORY and MARQO_MAX_CUDA_MODEL_MEMORY, as read by
\* _check_memory_threshold_for_model
MARQO_MAX_CPU_MODEL_MEMORY == 4

MARQO_MAX_CUDA_MODEL_MEMORY == 4

Threads == {"t1", "t2"}

\* the latest value datetime.datetime.now() takes in the model
MaxClock == 4

\* a cache key ends with its device (_create_model_cache_key)
CacheKeys == {[model |-> "m1", device |-> "cpu"], [model |-> "m2", device |-> "cpu"], [model |-> "m3", device |-> "cpu"], [model |-> "m4", device |-> "cpu"], [model |-> "m5", device |-> "cpu"], [model |-> "m2", device |-> "cuda"]}

\* get_model_size(model_name, model_properties)
get_model_size(model_name) == CASE model_name = "m1" -> 1 [] model_name = "m2" -> 2 [] model_name = "m3" -> 1 [] model_name = "m4" -> 4 [] OTHER -> 5

\* the keys of the cache that end with the device
KeysOfDevice(models, device) == {key \in DOMAIN models : key.device = device}

RECURSIVE SumOfSizes(_, _)
SumOfSizes(models, keys) == IF keys = {} THEN 0 ELSE LET key == CHOOSE k \in keys : TRUE IN models[key].model_size + SumOfSizes(models, keys \ {key})

used_memory(models, device) == SumOfSizes(models, KeysOfDevice(models, device))

threshold(device) == IF device = "cuda" THEN MARQO_MAX_CUDA_MODEL_MEMORY ELSE MARQO_MAX_CPU_MODEL_MEMORY

\* the memory check that lets a model fill the device up to the threshold
check_memory_threshold_or_equal(models, device, model_size) == IF model_size > threshold(device) THEN "raise" ELSE IF used_memory(models, device) + model_size <= threshold(device) THEN "True" ELSE "False"

\* _check_memory_threshold_for_model: "raise" when the model is larger than
\* the threshold, else whether used_memory + model_size < threshold
_check_memory_threshold_for_model(models, device, model_size) == IF model_size > threshold(device) THEN "raise" ELSE IF used_memory(models, device) + model_size < threshold(device) THEN "True" ELSE "False"

\* sorted(model_cache_key_for_device, key = most_recently_used_time)
RECURSIVE sorted_key_for_device(_, _)
sorted_key_for_device(models, keys) == IF keys = {} THEN <<>> ELSE LET first == CHOOSE k \in keys : \A other \in keys : models[k].most_recently_used_time <= models[other].most_recently_used_time IN <<first>> \o sorted_key_for_device(models, keys \ {first})

\* the same keys, most recently used first
RECURSIVE sorted_key_most_recent_first(_, _)
sorted_key_most_recent_first(models, keys) == IF keys = {} THEN <<>> ELSE LET first == CHOOSE k \in keys : \A other \in keys : models[k].most_recently_used_time >= models[other].most_recently_used_time IN <<first>> \o sorted_key_most_recent_first(models, keys \ {first})

Without(models, key) == [k \in DOMAIN models \ {key} |-> models[k]]

\* the for loop of _validate_model_into_device: delete, check, return on True
RECURSIVE EjectLoop(_, _, _, _, _)
EjectLoop(models, order, evicted, device, model_size) == IF order = <<>> THEN [models |-> models, evicted |-> evicted, raised |-> IF _check_memory_threshold_for_model(models, device, model_size) = "False" THEN "ModelCacheManagementError: CANNOT find enough space" ELSE ""] ELSE LET rest == Without(models, Head(order)) IN IF _check_memory_threshold_for_model(rest, device, model_size) = "True" THEN [models |-> rest, evicted |-> Append(evicted, Head(order)), raised |-> ""] ELSE EjectLoop(rest, Tail(order), Append(evicted, Head(order)), device, model_size)

\* _validate_model_into_device, ejecting the most recently used entries first
validate_model_most_recent_first(models, model_name, device) == LET model_size == get_model_size(model_name) first == _check_memory_threshold_for_model(models, device, model_size) IN IF first = "raise" THEN [models |-> models, evicted |-> <<>>, raised |-> "ModelCacheManagementError: larger than the device threshold"] ELSE IF first = "True" THEN [models |-> models, evicted |-> <<>>, raised |-> ""] ELSE EjectLoop(models, sorted_key_most_recent_first(models, KeysOfDevice(models, device)), <<>>, device, model_size)

\* _validate_model_into_device(model_name, model_properties, device)
_validate_model_into_device(models, model_name, device) == LET model_size == get_model_size(model_name) first == _check_memory_threshold_for_model(models, device, model_size) IN IF first = "raise" THEN [models |-> models, evicted |-> <<>>, raised |-> "ModelCacheManagementError: larger than the device threshold"] ELSE IF first = "True" THEN [models |-> models, evicted |-> <<>>, raised |-> ""] ELSE EjectLoop(models, sorted_key_for_device(models, KeysOfDevice(models, device)), <<>>, device, model_size)

IdleThread == [pc |-> "idle", key |-> [model |-> "", device |-> ""], result |-> "", waited |-> FALSE]

\* the thread after its call has returned or raised
Returned(result) == [IdleThread EXCEPT !.result = result]

NoValidation == [op |-> "none"]

NoCache == /\ available_models = <<>>
           /\ lock = ""
           /\ threads = <<>>
           /\ clock = 0
           /\ cache_call = NoValidation

CacheInit == /\ available_models = <<>>
             /\ lock = ""
             /\ threads = [t \in Threads |-> IdleThread]
             /\ clock = 1
             /\ cache_call = NoValidation

\* `if model_cache_key not in _available_models:` and get_model_size
TestInCache(t, key) == /\ threads[t].pc = "idle"
                       /\ threads' = [threads EXCEPT ![t] = [pc |-> IF key \in DOMAIN available_models THEN "hit" ELSE "miss", key |-> key, result |-> "", waited |-> FALSE]]
                       /\ UNCHANGED <<available_models, lock, clock, cache_call>>
                       /\ UNCHANGED <<storeVars, raceVars, packageVars, feedVars, statusVars, indexVars, downloadVars>>

\* the else branch: renew most_recently_used_time, KeyError when the entry
\* was ejected since the test
RenewTime(t) == /\ threads[t].pc = "hit"
                /\ clock < MaxClock
                /\ clock' = clock + 1
                /\ IF threads[t].key \in DOMAIN available_models THEN /\ available_models' = [available_models EXCEPT ![threads[t].key].most_recently_used_time = clock]
                                                                      /\ threads' = [threads EXCEPT ![t].pc = "updated", ![t].result = "renewed"]
                                                                 ELSE /\ UNCHANGED available_models
                                                                      /\ threads' = [threads EXCEPT ![t] = Returned("ModelNotInCacheError")]
                /\ UNCHANGED <<lock, cache_call>>
                /\ UNCHANGED <<storeVars, raceVars, packageVars, feedVars, statusVars, indexVars, downloadVars>>

\* `if lock.locked(): raise ModelCacheManagementError("Request rejected ...")`
TestLocked(t) == /\ threads[t].pc = "miss"
                 /\ threads' = [threads EXCEPT ![t] = IF lock # "" THEN Returned("ModelCacheManagementError: Request rejected") ELSE [@ EXCEPT !.pc = "unlocked"]]
                 /\ UNCHANGED <<available_models, lock, clock, cache_call>>
                 /\ UNCHANGED <<storeVars, raceVars, packageVars, feedVars, statusVars, indexVars, downloadVars>>

\* `with lock:` blocks until the lock is free; a thread that is at the same
\* statement when another one takes the lock has to wait for it
AcquireLock(t) == /\ threads[t].pc = "unlocked"
                  /\ lock = ""
                  /\ lock' = t
                  /\ threads' = [u \in Threads |-> IF u = t THEN [threads[u] EXCEPT !.pc = "locked"] ELSE IF threads[u].pc = "unlocked" THEN [threads[u] EXCEPT !.waited = TRUE] ELSE threads[u]]
                  /\ UNCHANGED <<available_models, clock, cache_call>>
                  /\ UNCHANGED <<storeVars, raceVars, packageVars, feedVars, statusVars, indexVars, downloadVars>>

\* _validate_model_into_device under the lock; its exception leaves the
\* with block, which releases the lock
ValidateModelIntoDevice(t) == /\ threads[t].pc = "locked"
                              /\ LET validated == _validate_model_into_device(available_models, threads[t].key.model, threads[t].key.device)
                                 IN /\ available_models' = validated.models
                                    /\ cache_call' = [op |-> "_validate_model_into_device", key |-> threads[t].key, evicted |-> validated.evicted, raised |-> validated.raised]
                                    /\ IF validated.raised = "" THEN /\ threads' = [threads EXCEPT ![t].pc = "validated"]
                                                                     /\ UNCHANGED lock
                                                                ELSE /\ threads' = [threads EXCEPT ![t] = Returned(validated.raised)]
                                                                     /\ lock' = ""
                              /\ UNCHANGED clock
                              /\ UNCHANGED <<storeVars, raceVars, packageVars, feedVars, statusVars, indexVars, downloadVars>>

LoadOutcomes == {"loaded", "ModelLoadError"}

\* the try block: now(), _load_model, the cache entry; then the lock is released
LoadModel(t, outcome) == /\ threads[t].pc = "validated"
                         /\ clock < MaxClock
                         /\ clock' = clock + 1
                         /\ available_models' = IF outcome = "loaded" THEN [k \in DOMAIN available_models \cup {threads[t].key} |-> IF k = threads[t].key THEN [most_recently_used_time |-> clock, model_size |-> get_model_size(k.model)] ELSE available_models[k]] ELSE available_models
                         /\ threads' = [threads EXCEPT ![t] = IF outcome = "loaded" THEN [@ EXCEPT !.pc = "updated", !.result = outcome] ELSE Returned(outcome)]
                         /\ lock' = ""
                         /\ UNCHANGED cache_call
                         /\ UNCHANGED <<storeVars, raceVars, packageVars, feedVars, statusVars, indexVars, downloadVars>>

\* vectorise line 63, after _update_available_models has returned:
\* model = _available_models[model_cache_key][AvailableModelsKey.model]
ReadModel(t) == /\ threads[t].pc = "updated"
                /\ threads' = [threads EXCEPT ![t] = Returned(IF threads[t].key \in DOMAIN available_models THEN "vectorised" ELSE "KeyError")]
                /\ UNCHANGED <<available_models, lock, clock, cache_call>>
                /\ UNCHANGED <<storeVars, raceVars, packageVars, feedVars, statusVars, indexVars, downloadVars>>

\* eject_model(model_name, device): takes no lock
EjectModel(key) == /\ available_models' = IF key \in DOMAIN available_models THEN Without(available_models, key) ELSE available_models
                   /\ cache_call' = [op |-> "eject_model", key |-> [model |-> "", device |-> key.device], evicted |-> <<>>, raised |-> IF key \in DOMAIN available_models THEN "" ELSE "ModelNotInCacheError"]
                   /\ UNCHANGED <<lock, threads, clock>>
                   /\ UNCHANGED <<storeVars, raceVars, packageVars, feedVars, statusVars, indexVars, downloadVars>>

\* clear_loaded_models(): _available_models.clear(), takes no lock
ClearLoadedModels == /\ available_models' = <<>>
                     /\ cache_call' = [op |-> "clear_loaded_models", key |-> [model |-> "", device |-> ""], evicted |-> <<>>, raised |-> ""]
                     /\ UNCHANGED <<lock, threads, clock>>
                     /\ UNCHANGED <<storeVars, raceVars, packageVars, feedVars, statusVars, indexVars, downloadVars>>

CacheNext == \/ \E t \in Threads, key \in CacheKeys : TestInCache(t, key)
             \/ \E t \in Threads : RenewTime(t)
             \/ \E t \in Threads : TestLocked(t)
             \/ \E t \in Threads : AcquireLock(t)
             \/ \E t \in Threads : ValidateModelIntoDevice(t)
             \/ \E t \in Threads, outcome \in LoadOutcomes : LoadModel(t, outcome)
             \/ \E t \in Threads : ReadModel(t)
             \/ \E key \in CacheKeys : EjectModel(key)
             \/ ClearLoadedModels

----------------------------------------------------------------------------
(* The index descriptor (MarqoIndex) as StructuredVespaIndex reads it.  A name *)
(* of the backend is a record of its prefix and the logical name; a logical   *)
(* name has the empty prefix.                                                *)

\* FieldType and DistanceMetric, the closed enumerations of the descriptor
FieldTypes == {"Text", "Bool", "Int", "Long", "Float", "Double", "ArrayText", "ArrayInt", "ArrayLong", "ArrayFloat", "ArrayDouble", "ImagePointer", "MultimodalCombination", "VideoPointer", "AudioPointer", "MapNumeric", "CustomVector"}

DistanceMetrics == {"Euclidean", "Angular", "DotProduct", "PrenormalizedAngular", "Geodegrees", "Hamming"}

_MARQO_TO_VESPA_TYPE_MAP == ("Text" :> "string") @@ ("Bool" :> "bool") @@ ("Int" :> "int") @@ ("Float" :> "float") @@ ("ArrayText" :> "array<string>") @@ ("ArrayInt" :> "array<int>") @@ ("ArrayFloat" :> "array<float>") @@ ("ImagePointer" :> "string")

_MARQO_TO_PYTHON_TYPE_MAP == ("Text" :> {"str"}) @@ ("Bool" :> {"bool"}) @@ ("Int" :> {"int"}) @@ ("Float" :> {"float", "int"}) @@ ("ArrayText" :> {"list"}) @@ ("ArrayInt" :> {"list"}) @@ ("ArrayFloat" :> {"list"}) @@ ("ImagePointer" :> {"str"})

_DISTANCE_METRIC_MAP == ("Euclidean" :> "euclidean") @@ ("Angular" :> "angular") @@ ("DotProduct" :> "dotproduct") @@ ("PrenormalizedAngular" :> "prenormalized-angular") @@ ("Geodegrees" :> "geodegrees") @@ ("Hamming" :> "hamming")

Returns(value) == [raised |-> "", value |-> value]

Raised(exception) == [raised |-> exception, value |-> None]

\* _get_vespa_type, _get_python_type, _get_distance_metric: the map, and the
\* exception raised in the KeyError handler
_get_vespa_type(marqo_type) == IF marqo_type \in DOMAIN _MARQO_TO_VESPA_TYPE_MAP THEN Returns(_MARQO_TO_VESPA_TYPE_MAP[marqo_type]) ELSE Raised("InternalError")

_get_python_type(marqo_type) == IF marqo_type \in DOMAIN _MARQO_TO_PYTHON_TYPE_MAP THEN Returns(_MARQO_TO_PYTHON_TYPE_MAP[marqo_type]) ELSE Raised("InternalError")

_get_distance_metric(marqo_distance_metric) == IF marqo_distance_metric \in DOMAIN _DISTANCE_METRIC_MAP THEN Returns(_DISTANCE_METRIC_MAP[marqo_distance_metric]) ELSE Raised("ValueError")

StorageName(prefix, name) == [prefix |-> prefix, name |-> name]

LogicalName(name) == StorageName("", name)

NoName == StorageName("", "")

_ID_FIELD_NAME == LogicalName("id")

_SCORE_MODIFIERS_FIELD == LogicalName("marqo__score_modifiers")

\* the derived names of a field and of a tensor field
lexical_field_name(field) == IF "LexicalSearch" \in field.features THEN StorageName("marqo__lexical_", field.name) ELSE NoName

filter_field_name(field) == IF "Filter" \in field.features THEN StorageName("marqo__filter_", field.name) ELSE NoName

chunk_field_name(tensor_field) == StorageName("marqo__chunks_", tensor_field)

embeddings_field_name(tensor_field) == StorageName("marqo__embeddings_", tensor_field)

TitleField == [name |-> "title", type |-> "Text", features |-> {"LexicalSearch", "Filter"}, lexical_field_name |-> NoName, filter_field_name |-> NoName]

BodyField == [name |-> "body", type |-> "Text", features |-> {"LexicalSearch"}, lexical_field_name |-> NoName, filter_field_name |-> NoName]

TagsField == [name |-> "tags", type |-> "ArrayText", features |-> {"Filter"}, lexical_field_name |-> NoName, filter_field_name |-> NoName]

PriceField == [name |-> "price", type |-> "Float", features |-> {"ScoreModifier"}, lexical_field_name |-> NoName, filter_field_name |-> NoName]

CaptionField == [name |-> "caption", type |-> "MultimodalCombination", features |-> {}, lexical_field_name |-> NoName, filter_field_name |-> NoName]

FieldLists == {<<>>, <<TitleField>>, <<PriceField>>, <<TitleField, PriceField>>, <<BodyField, TitleField, TagsField>>, <<TagsField, PriceField, CaptionField>>}

TensorFieldLists == {<<>>, <<"title">>, <<"title", "body">>, <<"caption">>}

FieldNames(fields) == {fields[i].name : i \in 1..Len(fields)}

Members(list) == {list[i] : i \in 1..Len(list)}

MarqoIndex(type, fields, tensor_fields, distance_metric) == [name |-> "index1", type |-> type, fields |-> fields, tensor_fields |-> tensor_fields, distance_metric |-> distance_metric, model_dimension |-> 2, tensor_fields_named |-> FALSE]

\* every tensor field names a field of the index
Indexes == {MarqoIndex("Structured", fields, tensor_fields, "Angular") : <<fields, tensor_fields>> \in {pair \in FieldLists \X TensorFieldLists : Members(pair[2]) \subseteq FieldNames(pair[1])}} \cup {MarqoIndex("Unstructured", <<TitleField>>, <<"title">>, "Angular"), MarqoIndex("Structured", <<TitleField>>, <<"title">>, "DotProduct")}

field_map(index, field_name) == index.fields[CHOOSE i \in 1..Len(index.fields) : index.fields[i].name = field_name]

\* marqo_index.lexical_fields and marqo_index.score_modifier_fields
RECURSIVE lexical_fields(_)
lexical_fields(fields) == IF fields = <<>> THEN <<>> ELSE (IF "LexicalSearch" \in Head(fields).features THEN <<lexical_field_name(Head(fields))>> ELSE <<>>) \o lexical_fields(Tail(fields))

RECURSIVE score_modifier_fields(_)
score_modifier_fields(fields) == IF fields = <<>> THEN <<>> ELSE (IF "ScoreModifier" \in Head(fields).features THEN <<LogicalName(Head(fields).name)>> ELSE <<>>) \o score_modifier_fields(Tail(fields))

\* _validate_index_type
_validate_index_type(index) == IF index.type # "Structured" THEN "ValueError" ELSE ""

NoIndexCall == [op |-> "none"]

NoIndex == /\ marqo_index = <<>>
           /\ marqo_query = <<>>
           /\ index_call = NoIndexCall

----------------------------------------------------------------------------
(* StructuredVespaIndex.to_vespa_document and to_marqo_document.  A logical   *)
(* document is its optional _id, its fields in the order of the dictionary,   *)
(* and its optional _tensors; a Python value carries its type.                *)

StrValue == [type |-> "str", value |-> "a"]

IntValue == [type |-> "int", value |-> "1"]

\* isinstance(value, python_type); bool is a subclass of int
IsInstance(value, python_type) == value.type = python_type \/ (python_type = "int" /\ value.type = "bool")

DocumentEntries == {[name |-> "title", value |-> StrValue], [name |-> "title", value |-> IntValue], [name |-> "price", value |-> IntValue], [name |-> "colour", value |-> StrValue]}

DocumentFields == {<<>>} \cup {<<e>> : e \in DocumentEntries} \cup {<<pair[1], pair[2]>> : pair \in {p \in DocumentEntries \X DocumentEntries : p[1].name # p[2].name}}

TensorValue(name, keys) == [name |-> name, keys |-> keys, chunks |-> <<"a">>, embeddings |-> <<"e1">>]

DocumentTensors == {<<>>, <<<<TensorValue("title", {"chunks", "embeddings"})>>>>, <<<<TensorValue("price", {"chunks", "embeddings"})>>>>, <<<<TensorValue("colour", {"chunks", "embeddings"})>>>>, <<<<TensorValue("title", {"chunks"})>>>>}

Documents == [id : {<<>>, <<"doc1">>}, fields : DocumentFields, tensors : DocumentTensors]

\* _verify_marqo_field_name
_verify_marqo_field_name(field_name, index) == IF field_name \notin FieldNames(index.fields) THEN "InvalidFieldNameError" ELSE ""

\* _verify_marqo_tensor_field_name: the test is on field_map
_verify_marqo_tensor_field_name(field_name, index) == IF field_name \notin FieldNames(index.fields) THEN "InvalidFieldNameError" ELSE ""

\* _verify_marqo_tensor_field
_verify_marqo_tensor_field(field_value) == IF field_value.keys # {"chunks", "embeddings"} THEN "InternalError" ELSE ""

\* _verify_marqo_field_type
_verify_marqo_field_type(field_name, value, index) == LET python_type == _get_python_type(field_map(index, field_name).type) IN IF python_type.raised # "" THEN python_type.raised ELSE IF \A t \in python_type.value : ~IsInstance(value, t) THEN "InvalidDataTypeError" ELSE ""

\* lines 100-107: the value goes to the lexical name, the filter name, or the plain name
RouteField(vespa_fields, index_field, marqo_value) == LET lexical == IF index_field.lexical_field_name # NoName THEN DictSet(vespa_fields, index_field.lexical_field_name, marqo_value) ELSE vespa_fields filter == IF index_field.filter_field_name # NoName THEN DictSet(lexical, index_field.filter_field_name, marqo_value) ELSE lexical IN IF index_field.lexical_field_name = NoName /\ index_field.filter_field_name = NoName THEN DictSet(filter, LogicalName(index_field.name), marqo_value) ELSE filter

\* the loop over the fields of the document (lines 92-107)
RECURSIVE FieldsLoop(_, _, _)
FieldsLoop(entries, index, vespa_fields) == IF entries = <<>> THEN Returns(vespa_fields) ELSE LET entry == Head(entries) IN IF _verify_marqo_field_name(entry.name, index) # "" THEN Raised(_verify_marqo_field_name(entry.name, index)) ELSE IF _verify_marqo_field_type(entry.name, entry.value, index) # "" THEN Raised(_verify_marqo_field_type(entry.name, entry.value, index)) ELSE FieldsLoop(Tail(entries), index, RouteField(vespa_fields, field_map(index, entry.name), entry.value))

\* {f'{i}': embeddings[i] for i in range(len(embeddings))}
EmbeddingsByIndex(embeddings) == [i \in 0..(Len(embeddings) - 1) |-> embeddings[i + 1]]

\* the loop over _tensors (lines 111-124); tensor_field_map[name] raises KeyError
RECURSIVE TensorsLoop(_, _, _)
TensorsLoop(entries, index, vespa_fields) == IF entries = <<>> THEN Returns(vespa_fields) ELSE LET entry == Head(entries) IN IF _verify_marqo_tensor_field_name(entry.name, index) # "" THEN Raised(_verify_marqo_tensor_field_name(entry.name, index)) ELSE IF _verify_marqo_tensor_field(entry) # "" THEN Raised(_verify_marqo_tensor_field(entry)) ELSE IF entry.name \notin Members(index.tensor_fields) THEN Raised("KeyError") ELSE TensorsLoop(Tail(entries), index, DictSet(DictSet(vespa_fields, IF index.tensor_fields_named THEN chunk_field_name(entry.name) ELSE NoName, entry.chunks), IF index.tensor_fields_named THEN embeddings_field_name(entry.name) ELSE NoName, EmbeddingsByIndex(entry.embeddings)))

\* to_vespa_document(marqo_document, marqo_index)
to_vespa_document(marqo_document, index) == IF _validate_index_type(index) # "" THEN Raised(_validate_index_type(index)) ELSE LET with_id == IF marqo_document.id # <<>> THEN DictSet(EmptyDict, _ID_FIELD_NAME, marqo_document.id[1]) ELSE EmptyDict fields == FieldsLoop(marqo_document.fields, index, with_id) IN IF fields.raised # "" THEN fields ELSE LET tensors == IF marqo_document.tensors # <<>> THEN TensorsLoop(marqo_document.tensors[1], index, fields.value) ELSE fields IN IF tensors.raised # "" THEN tensors ELSE Returns([fields |-> tensors.value, id |-> marqo_document.id])

\* to_marqo_document(vespa_document, marqo_index): the body is `pass`
to_marqo_document(vespa_document, index) == <<>>

DocumentInit == /\ marqo_index \in Indexes
                /\ marqo_query = <<>>
                /\ index_call = NoIndexCall

ToVespaDocument(marqo_document) == /\ index_call' = [op |-> "to_vespa_document", document |-> marqo_document, result |-> to_vespa_document(marqo_document, marqo_index)]
                                   /\ UNCHANGED <<marqo_index, marqo_query>>
                                   /\ UNCHANGED <<storeVars, raceVars, packageVars, feedVars, statusVars, cacheVars, downloadVars>>

\* the backend document goes back through to_marqo_document
ToMarqoDocument == /\ index_call.op = "to_vespa_document"
                   /\ index_call.result.raised = ""
                   /\ index_call' = [op |-> "to_marqo_document", document |-> index_call.document, vespa_document |-> index_call.result.value, result |-> to_marqo_document(index_call.result.value, marqo_index)]
                   /\ UNCHANGED <<marqo_index, marqo_query>>
                   /\ UNCHANGED <<storeVars, raceVars, packageVars, feedVars, statusVars, cacheVars, downloadVars>>

----------------------------------------------------------------------------
(* SemiStructuredVespaIndex.to_vespa_query: the attributes to retrieve of the  *)
(* query object are extended in place, then the query goes to the method of   *)
(* its type.  An Optional list is <<>> for None and <<list>> otherwise.       *)

VESPA_FIELD_ID == LogicalName("marqo__id")

\* the longest attributes list a query is called with
MaxAttributes == 5

QueryTypes == {"MarqoTensorQuery", "MarqoLexicalQuery", "MarqoHybridQuery", "MarqoQuery"}

AttributeLists == {<<>>, <<<<>>>>, <<<<LogicalName("title")>>>>, <<<<LogicalName("price")>>>>, <<<<LogicalName("title"), LogicalName("price")>>>>, <<<<LogicalName("body"), LogicalName("title")>>>>}

Queries == [type : QueryTypes, attributes_to_retrieve : AttributeLists]

QueryIndexes == {MarqoIndex("SemiStructured", <<TitleField, PriceField>>, <<>>, "Angular"), MarqoIndex("SemiStructured", <<TitleField, PriceField>>, <<"title">>, "Angular"), MarqoIndex("SemiStructured", <<BodyField, TitleField, TagsField>>, <<"title", "body">>, "Angular"), MarqoIndex("Structured", <<TitleField>>, <<"title">>, "Angular")}

\* get_marqo_index
get_marqo_index(index) == IF index.type = "SemiStructured" THEN "" ELSE "TypeError"

\* att in self.get_marqo_index().tensor_field_map
InTensorFieldMap(att, index) == att.prefix = "" /\ att.name \in Members(index.tensor_fields)

\* [tensor_field_map[att].chunk_field_name for att in attributes if att in tensor_field_map]
RECURSIVE ChunkFieldNames(_, _)
ChunkFieldNames(attributes, index) == IF attributes = <<>> THEN <<>> ELSE (IF InTensorFieldMap(Head(attributes), index) THEN <<chunk_field_name(Head(attributes).name)>> ELSE <<>>) \o ChunkFieldNames(Tail(attributes), index)

\* the method the query is handed to, by its type
\* the classes a query of this type is an instance of (marqo_query.py):
\* MarqoHybridQuery(MarqoTensorQuery, MarqoLexicalQuery)
ClassesOf(type) == CASE type = "MarqoHybridQuery" -> {"MarqoHybridQuery", "MarqoTensorQuery", "MarqoLexicalQuery", "MarqoQuery"} [] type = "MarqoTensorQuery" -> {"MarqoTensorQuery", "MarqoQuery"} [] type = "MarqoLexicalQuery" -> {"MarqoLexicalQuery", "MarqoQuery"} [] OTHER -> {"MarqoQuery"}

\* the isinstance chain with the tensor test before the hybrid test
compiler_tensor_first(query) == IF "MarqoTensorQuery" \in ClassesOf(query.type) THEN "_to_vespa_tensor_query" ELSE IF "MarqoHybridQuery" \in ClassesOf(query.type) THEN "_to_vespa_hybrid_query" ELSE IF "MarqoLexicalQuery" \in ClassesOf(query.type) THEN "_to_vespa_lexical_query" ELSE ""

\* the isinstance chain of to_vespa_query (lines 54-63): the method of
\* StructuredVespaIndex the query is handed to, "" when there is none
Compiler(query) == IF "MarqoHybridQuery" \in ClassesOf(query.type) THEN "_to_vespa_hybrid_query" ELSE IF "MarqoTensorQuery" \in ClassesOf(query.type) THEN "_to_vespa_tensor_query" ELSE IF "MarqoLexicalQuery" \in ClassesOf(query.type) THEN "_to_vespa_lexical_query" ELSE ""

Dispatch(query) == IF Compiler(query) = "" THEN "InternalError" ELSE ""

\* to_vespa_query keeping the id field only
to_vespa_query_id_only(query, index) == IF query.attributes_to_retrieve = <<>> THEN [query |-> query, raised |-> Dispatch(query)] ELSE LET appended == Append(query.attributes_to_retrieve[1], VESPA_FIELD_ID) IN [query |-> [query EXCEPT !.attributes_to_retrieve = <<appended>>], raised |-> IF get_marqo_index(index) # "" THEN get_marqo_index(index) ELSE Dispatch(query)]

\* to_vespa_query(marqo_query): the query object after the call, and what was raised
to_vespa_query(query, index) == IF query.attributes_to_retrieve = <<>> THEN [query |-> query, raised |-> Dispatch(query)] ELSE LET appended == Append(query.attributes_to_retrieve[1], VESPA_FIELD_ID) IN IF get_marqo_index(index) # "" THEN [query |-> [query EXCEPT !.attributes_to_retrieve = <<appended>>], raised |-> get_marqo_index(index)] ELSE [query |-> [query EXCEPT !.attributes_to_retrieve = <<appended \o ChunkFieldNames(appended, index)>>], raised |-> Dispatch(query)]

QueryInit == /\ marqo_index \in QueryIndexes
             /\ marqo_query \in Queries
             /\ index_call = NoIndexCall

ToVespaQuery == /\ marqo_query.attributes_to_retrieve # <<>> => Len(marqo_query.attributes_to_retrieve[1]) <= MaxAttributes
                /\ LET result == to_vespa_query(marqo_query, marqo_index)
                   IN /\ marqo_query' = result.query
                      /\ index_call' = [op |-> "to_vespa_query", before |-> marqo_query.attributes_to_retrieve, raised |-> result.raised, compiler |-> IF result.raised = "" THEN Compiler(marqo_query) ELSE ""]
                /\ UNCHANGED marqo_index
                /\ UNCHANGED <<storeVars, raceVars, packageVars, feedVars, statusVars, cacheVars, downloadVars>>

QueryNext == ToVespaQuery

----------------------------------------------------------------------------
(* StructuredVespaIndex.generate_schema.  The schema is the list of its lines; *)
(* a line is kept as the section it belongs to, what it declares there, the   *)
(* name it declares and the backend type.                                     *)

Line(section, part, name, type) == [section |-> section, part |-> part, name |-> name, type |-> type]

\* the lines of one field in the document block (lines 186-216)
FieldLines(field, field_type) == (IF "LexicalSearch" \in field.features THEN <<Line("document", "field", lexical_field_name(field), field_type)>> ELSE <<>>) \o (IF "Filter" \in field.features THEN <<Line("document", "field", filter_field_name(field), field_type)>> ELSE <<>>) \o (IF "LexicalSearch" \notin field.features /\ "Filter" \notin field.features THEN <<Line("document", "field", LogicalName(field.name), field_type)>> ELSE <<>>)

\* the loop over marqo_index.fields (lines 185-216); _get_vespa_type may raise
RECURSIVE DocumentFieldsLoop(_, _)
DocumentFieldsLoop(fields, document) == IF fields = <<>> THEN Returns(document) ELSE IF Head(fields).type = "MultimodalCombination" THEN DocumentFieldsLoop(Tail(fields), document) ELSE LET field_type == _get_vespa_type(Head(fields).type) IN IF field_type.raised # "" THEN field_type ELSE DocumentFieldsLoop(Tail(fields), document \o FieldLines(Head(fields), field_type.value))

\* the loop over marqo_index.tensor_fields (lines 224-240)
RECURSIVE DocumentTensorsLoop(_, _, _)
DocumentTensorsLoop(tensor_fields, index, document) == IF tensor_fields = <<>> THEN Returns(document) ELSE LET metric == _get_distance_metric(index.distance_metric) IN IF metric.raised # "" THEN metric ELSE DocumentTensorsLoop(Tail(tensor_fields), index, document \o <<Line("document", "chunks", chunk_field_name(Head(tensor_fields)), "array<string>"), Line("document", "embeddings", embeddings_field_name(Head(tensor_fields)), metric.value)>>)

\* field.lexical_field_name = ..., field.filter_field_name = ... (lines 200 and
\* 210): the fields of the index object after the loop, which ends at the
\* first field whose type raises
RECURSIVE NamedFields(_)
NamedFields(fields) == IF fields = <<>> THEN <<>> ELSE IF Head(fields).type = "MultimodalCombination" THEN <<Head(fields)>> \o NamedFields(Tail(fields)) ELSE IF _get_vespa_type(Head(fields).type).raised # "" THEN fields ELSE <<[Head(fields) EXCEPT !.lexical_field_name = IF lexical_field_name(Head(fields)) # NoName THEN lexical_field_name(Head(fields)) ELSE @, !.filter_field_name = IF filter_field_name(Head(fields)) # NoName THEN filter_field_name(Head(fields)) ELSE @]>> \o NamedFields(Tail(fields))

\* the index object after _generate_document_section: the derived names are
\* attributes that the schema generation sets (lines 200, 210, 239, 240)
NamedIndex(index) == [index EXCEPT !.fields = NamedFields(index.fields), !.tensor_fields_named = @ \/ (index.tensor_fields # <<>> /\ DocumentFieldsLoop(index.fields, <<>>).raised = "" /\ _get_distance_metric(index.distance_metric).raised = "")]

\* _generate_document_section
_generate_document_section(index) == LET fields == DocumentFieldsLoop(index.fields, <<Line("document", "open", LogicalName(index.name), ""), Line("document", "field", _ID_FIELD_NAME, "string")>>) IN IF fields.raised # "" THEN fields ELSE LET modifiers == IF score_modifier_fields(index.fields) # <<>> THEN fields.value \o <<Line("document", "score-modifiers", _SCORE_MODIFIERS_FIELD, "tensor<float>(p{})")>> ELSE fields.value tensors == DocumentTensorsLoop(index.tensor_fields, index, modifiers) IN IF tensors.raised # "" THEN tensors ELSE Returns(tensors.value \o <<Line("document", "close", NoName, "")>>)

RankProfile(name) == Line("rank-profile", "profile", LogicalName(name), "")

\* _generate_rank_profiles
_generate_rank_profiles(index) == LET lexical == lexical_fields(index.fields) # <<>> tensor == index.tensor_fields # <<>> modifiers == score_modifier_fields(index.fields) # <<>> IN (IF lexical THEN <<RankProfile("bm25")>> ELSE <<>>) \o (IF tensor THEN <<RankProfile("embedding_similarity")>> ELSE <<>>) \o (IF modifiers THEN <<RankProfile("modifiers")>> \o (IF lexical THEN <<RankProfile("bm25_modifiers")>> ELSE <<>>) \o (IF tensor THEN <<RankProfile("embedding_similarity_modifiers")>> ELSE <<>>) ELSE <<>>)

\* _generate_default_fieldset
_generate_default_fieldset(index) == IF lexical_fields(index.fields) # <<>> THEN <<Line("fieldset", "default", LogicalName("default"), "")>> ELSE <<>>

\* source of the summary of a field (lines 259-265)
SummarySource(field) == IF field.filter_field_name # NoName THEN field.filter_field_name ELSE IF field.lexical_field_name # NoName THEN field.lexical_field_name ELSE LogicalName(field.name)

RECURSIVE SummaryFieldsLoop(_, _)
SummaryFieldsLoop(fields, summary) == IF fields = <<>> THEN Returns(summary) ELSE IF Head(fields).type = "MultimodalCombination" THEN SummaryFieldsLoop(Tail(fields), summary) ELSE LET field_type == _get_vespa_type(Head(fields).type) IN IF field_type.raised # "" THEN field_type ELSE SummaryFieldsLoop(Tail(fields), Append(summary, Line("document-summary", "summary", SummarySource(Head(fields)), field_type.value)))

TensorSummaries(tensor_fields, part) == [i \in 1..Len(tensor_fields) |-> Line("document-summary", "summary", IF part = "chunks" THEN chunk_field_name(tensor_fields[i]) ELSE embeddings_field_name(tensor_fields[i]), "")]

\* _generate_summaries
_generate_summaries(index) == LET fields == SummaryFieldsLoop(index.fields, <<>>) IN IF fields.raised # "" THEN fields ELSE LET non_vector == fields.value \o TensorSummaries(index.tensor_fields, "chunks") IN Returns(<<Line("document-summary", "open", LogicalName("all-non-vector-summary"), "")>> \o non_vector \o <<Line("document-summary", "open", LogicalName("all-vector-summary"), "")>> \o non_vector \o TensorSummaries(index.tensor_fields, "embeddings"))

\* generate_schema(marqo_index)
generate_schema(index) == IF _validate_index_type(index) # "" THEN Raised(_validate_index_type(index)) ELSE LET document == _generate_document_section(index) IN IF document.raised # "" THEN document ELSE LET summaries == _generate_summaries(NamedIndex(index)) IN IF summaries.raised # "" THEN summaries ELSE Returns(<<Line("schema", "open", LogicalName(index.name), "")>> \o document.value \o _generate_rank_profiles(NamedIndex(index)) \o _generate_default_fieldset(NamedIndex(index)) \o summaries.value \o <<Line("schema", "close", NoName, "")>>)

\* the index object that generate_schema leaves behind
IndexAfterGenerateSchema(index) == IF _validate_index_type(index) # "" THEN index ELSE NamedIndex(index)

SchemaInit == /\ marqo_index \in Indexes
              /\ marqo_query = <<>>
              /\ index_call = NoIndexCall

GenerateSchema == /\ index_call' = [op |-> "generate_schema", input |-> marqo_index.name, result |-> generate_schema(marqo_index)]
                  /\ marqo_index' = IndexAfterGenerateSchema(marqo_index)
                  /\ UNCHANGED marqo_query
                  /\ UNCHANGED <<storeVars, raceVars, packageVars, feedVars, statusVars, cacheVars, downloadVars>>

GetVespaType(marqo_type) == /\ index_call' = [op |-> "_get_vespa_type", input |-> marqo_type, result |-> _get_vespa_type(marqo_type)]
                            /\ UNCHANGED <<marqo_index, marqo_query>>
                            /\ UNCHANGED <<storeVars, raceVars, packageVars, feedVars, statusVars, cacheVars, downloadVars>>

GetDistanceMetric(marqo_distance_metric) == /\ index_call' = [op |-> "_get_distance_metric", input |-> marqo_distance_metric, result |-> _get_distance_metric(marqo_distance_metric)]
                                            /\ UNCHANGED <<marqo_index, marqo_query>>
                                            /\ UNCHANGED <<storeVars, raceVars, packageVars, feedVars, statusVars, cacheVars, downloadVars>>

SchemaNext == \/ GenerateSchema
              \/ \E marqo_type \in FieldTypes \cup {"NotAFieldType"} : GetVespaType(marqo_type)
              \/ \E marqo_distance_metric \in DistanceMetrics \cup {"NotADistanceMetric"} : GetDistanceMetric(marqo_distance_metric)

\* the document translation, before and after generate_schema ran on the index object
DocumentNext == \/ \E marqo_document \in Documents : ToVespaDocument(marqo_document)
                \/ ToMarqoDocument
                \/ GenerateSchema

----------------------------------------------------------------------------
(* add_docs.download_images.  A document is a dictionary of two fields; a      *)
(* value carries its Python type, and a string is a plain text or the URL of   *)
(* an image that loads or of one that PIL cannot identify.                     *)

\* the longest list of documents and the largest thread_count of a call
MaxDocs == 3

MaxThreadCount == 3

PlainText == [type |-> "str", value |-> "hello"]

ImageUrl == [type |-> "str", value |-> "http://host/image.png"]

UnidentifiedUrl == [type |-> "str", value |-> "http://host/broken.png"]

\* isinstance(doc[field], str) and _is_image(doc[field])
IsImagePointer(value) == value.type = "str" /\ value.value \in {ImageUrl.value, UnidentifiedUrl.value}

\* load_image_from_path(doc[field]), when it returns
LoadedImage(value) == [type |-> "Image", value |-> value.value]

DownloadDocs == [title : {PlainText, ImageUrl}, image : {PlainText, ImageUrl, UnidentifiedUrl}]

DownloadLists == UNION {[1..n -> DownloadDocs] : n \in 0..MaxDocs}

\* math.ceil(a / b)
Ceil(a, b) == (a + b - 1) \div b

\* list[i : i + n]
Slice(list, i, n) == SubSeq(list, i + 1, IF i + n < Len(list) THEN i + n ELSE Len(list))

\* range(docs_per_thread)[::docs_per_thread]
SliceStarts(docs_per_thread) == [k \in 1..Ceil(docs_per_thread, docs_per_thread) |-> (k - 1) * docs_per_thread]

\* the body of the loop over list(doc): the field after the thread has seen it
DownloadedField(value) == IF IsImagePointer(value) /\ value # UnidentifiedUrl THEN LoadedImage(value) ELSE value

\* threaded_download_images(allocated_docs): the documents of the list after the call
threaded_download_images(allocated_docs) == [i \in 1..Len(allocated_docs) |-> [field \in DOMAIN allocated_docs[i] |-> DownloadedField(allocated_docs[i][field])]]

\* functools.reduce(lambda x, y: x + y, thread_allocated_docs, [])
RECURSIVE Concatenated(_)
Concatenated(lists) == IF lists = <<>> THEN <<>> ELSE Head(lists) \o Concatenated(Tail(lists))

\* download_images(docs, thread_count): one Thread per i in range(docs_per_thread),
\* each with thread_allocated_docs[i]; the threads work on the deep copy
download_images(documents, thread_count) == LET docs_per_thread == Ceil(Len(documents), thread_count) IN IF docs_per_thread = 0 THEN Raised("ValueError") ELSE LET copied == documents thread_allocated_docs == [k \in 1..Len(SliceStarts(docs_per_thread)) |-> Slice(copied, SliceStarts(docs_per_thread)[k], docs_per_thread)] IN IF docs_per_thread > Len(thread_allocated_docs) THEN Raised("IndexError") ELSE Returns(Concatenated([k \in 1..Len(thread_allocated_docs) |-> IF k <= docs_per_thread THEN threaded_download_images(thread_allocated_docs[k]) ELSE thread_allocated_docs[k]]))

NoDownloadCall == [op |-> "none"]

NoDownload == /\ docs = <<>>
              /\ download_call = NoDownloadCall

DownloadInit == /\ docs = <<>>
                /\ download_call = NoDownloadCall

\* the caller hands its list to download_images and keeps it
DownloadImages(documents, thread_count) == /\ docs' = documents
                                           /\ download_call' = [op |-> "download_images", docs |-> documents, thread_count |-> thread_count, result |-> download_images(documents, thread_count)]
                                           /\ UNCHANGED <<storeVars, raceVars, packageVars, feedVars, statusVars, cacheVars, indexVars>>

DownloadNext == \E documents \in DownloadLists, thread_count \in 1..MaxThreadCount : DownloadImages(documents, thread_count)

----------------------------------------------------------------------------
(* The components after the document feed, when a specification leaves them out *)

NoRest == NoStatus /\ NoCache /\ NoIndex /\ NoDownload

----------------------------------------------------------------------------
(* Specifications *)

Init == StoreInit /\ NoRace /\ NoPackage /\ NoFeed /\ NoRest

InitRace == StoreInit /\ RaceInit /\ NoPackage /\ NoFeed /\ NoRest

InitPackage == PackageInit /\ NoRace /\ NoFeed /\ NoRest

Next == StoreNext

Spec == Init /\ [][Next]_vars

SpecRace == InitRace /\ [][RaceNext]_vars

SpecPackage == InitPackage /\ [][PackageNext]_vars

InitFiles == FilesInit /\ NoRace /\ NoFeed /\ NoRest

SpecFiles == InitFiles /\ [][FilesNext]_vars

SpecSave == InitFiles /\ [][SaveNext]_vars

InitManifest == ManifestInit /\ NoRace /\ NoFeed /\ NoRest

SpecManifest == InitManifest /\ [][ManifestNext]_vars

InitFeed == StoreInit /\ NoRace /\ NoPackage /\ FeedInit /\ NoRest

SpecFeed == InitFeed /\ [][FeedNext]_vars

\* The event loop runs every task that can run, and every request ends (with
\* an answer, or with httpx.HTTPError at the latest when its timeout expires).
SpecFeedFair == InitFeed /\ [][FeedNext]_vars /\ WF_vars(FeedNext)

InitStatus == StoreInit /\ NoRace /\ NoPackage /\ NoFeed /\ StatusInit /\ NoCache /\ NoIndex /\ NoDownload

InitCache == StoreInit /\ NoRace /\ NoPackage /\ NoFeed /\ NoStatus /\ CacheInit /\ NoIndex /\ NoDownload

SpecCache == InitCache /\ [][CacheNext]_vars

InitDownload == StoreInit /\ NoRace /\ NoPackage /\ NoFeed /\ NoStatus /\ NoCache /\ NoIndex /\ DownloadInit

SpecDownload == InitDownload /\ [][DownloadNext]_vars

InitDocument == StoreInit /\ NoRace /\ NoPackage /\ NoFeed /\ NoStatus /\ NoCache /\ DocumentInit /\ NoDownload

SpecDocument == InitDocument /\ [][DocumentNext]_vars

InitQuery == StoreInit /\ NoRace /\ NoPackage /\ NoFeed /\ NoStatus /\ NoCache /\ QueryInit /\ NoDownload

SpecQuery == InitQuery /\ [][QueryNext]_vars

InitSchema == StoreInit /\ NoRace /\ NoPackage /\ NoFeed /\ NoStatus /\ NoCache /\ SchemaInit /\ NoDownload

SpecSchema == InitSchema /\ [][SchemaNext]_vars

SpecStatus == InitStatus /\ [][StatusNext]_vars

----------------------------------------------------------------------------
(* Properties of the IndexSettingStore *)

\* T = (record.version or 0) + 1, as the contract words it
ContractTarget(version) == IF version = None THEN 1 ELSE version + 1

\* C: the version of the current record of the name, 0 when it has none
ContractCurrent(name) ==
    IF name \in DOMAIN index_settings THEN index_settings[name].version ELSE 0

SaveStep == call'.op = "save"

DeleteStep == call'.op = "delete"

\* C1: a save with target version T succeeds exactly when T = C + 1, C being
\* the current version of the name (0 when absent); otherwise it raises
\* OperationConflictError.
C1_SaveAcceptedIffNextVersion ==
    [][SaveStep =>
        /\ raised' \in {"none", "OperationConflictError"}
        /\ (raised' = "none") <=>
               (ContractTarget(call'.version) = ContractCurrent(call'.name) + 1)]_vars

\* A conflicting save on an index that has already been saved twice.
C1_Witness ==
    /\ call.op = "save"
    /\ raised = "OperationConflictError"
    /\ call.name \in DOMAIN index_settings
    /\ index_settings[call.name].version >= 2

\* C2: a save that raises OperationConflictError leaves the current map and
\* the history map exactly as they were.
C2_ConflictChangesNothing ==
    [][(SaveStep /\ raised' = "OperationConflictError") =>
        /\ index_settings' = index_settings
        /\ index_settings_history' = index_settings_history]_vars

\* A conflicting save on a deleted index whose history is still there, while
\* another index exists.
C2_Witness ==
    /\ call.op = "save"
    /\ raised = "OperationConflictError"
    /\ call.name \notin DOMAIN index_settings
    /\ call.name \in DOMAIN index_settings_history
    /\ DOMAIN index_settings # {}

\* C3: after a successful save with target version T the current record of
\* the name has version T, and the record that was current before the call,
\* if any, is the first element of the history of the name.
C3_SaveStoresAndPushes ==
    [][(SaveStep /\ raised' = "none") =>
        /\ call'.name \in DOMAIN index_settings'
        /\ index_settings'[call'.name].version = ContractTarget(call'.version)
        /\ call'.name \in DOMAIN index_settings =>
               /\ call'.name \in DOMAIN index_settings_history'
               /\ Len(index_settings_history'[call'.name]) >= 1
               /\ index_settings_history'[call'.name][1] = index_settings[call'.name]]_vars

\* A successful save over an existing record that already had a history.
C3_Witness ==
    /\ call.op = "save"
    /\ raised = "none"
    /\ call.existed
    /\ call.had_history
    /\ index_settings[call.name].version >= 3

HistoryBounded ==
    \A n \in DOMAIN index_settings_history :
        Len(index_settings_history[n]) <= 3

\* the current record of the name is pushed on a history that holds 3 records
PushOnFullHistory ==
    /\ call'.op \in {"save", "delete"}
    /\ raised' = "none"
    /\ call'.name \in DOMAIN index_settings
    /\ call'.name \in DOMAIN index_settings_history
    /\ Len(index_settings_history[call'.name]) = 3

\* C4: every history has at most 3 records, and a push on a full history
\* drops the oldest record (the last one).
C4_HistoryCappedOldestDropped ==
    /\ []HistoryBounded
    /\ [][PushOnFullHistory =>
            /\ call'.name \in DOMAIN index_settings_history'
            /\ index_settings_history'[call'.name] =
                   <<index_settings[call'.name],
                     index_settings_history[call'.name][1],
                     index_settings_history[call'.name][2]>>]_vars

\* A full history whose oldest record is no longer version 1: one was dropped.
C4_Witness ==
    \E n \in DOMAIN index_settings_history :
        /\ Len(index_settings_history[n]) = 3
        /\ index_settings_history[n][3].version >= 2

\* C5: every history is newest-first: versions strictly decrease from index 0.
C5_HistoryNewestFirst ==
    \A n \in DOMAIN index_settings_history :
        \A i \in 1 .. Len(index_settings_history[n]) - 1 :
            index_settings_history[n][i].version >
                index_settings_history[n][i + 1].version

\* A history of three records, after a delete.
C5_Witness ==
    /\ call.op = "delete"
    /\ call.existed
    /\ call.name \in DOMAIN index_settings_history
    /\ Len(index_settings_history[call.name]) = 3

\* C6: delete of a present name pushes its record on the history (at most 3
\* kept) and removes it from the current map; delete of an absent name raises
\* nothing and changes neither map.
C6_DeleteContract ==
    [][DeleteStep =>
        /\ raised' = "none"
        /\ call'.name \in DOMAIN index_settings =>
               /\ call'.name \notin DOMAIN index_settings'
               /\ call'.name \in DOMAIN index_settings_history'
               /\ Len(index_settings_history'[call'.name]) \in 1 .. 3
               /\ index_settings_history'[call'.name][1] = index_settings[call'.name]
        /\ call'.name \notin DOMAIN index_settings =>
               /\ index_settings' = index_settings
               /\ index_settings_history' = index_settings_history]_vars

\* A delete of an index at version 2 or more while the other index stays.
C6_Witness ==
    /\ call.op = "delete"
    /\ call.existed
    /\ call.name \notin DOMAIN index_settings
    /\ call.name \in DOMAIN index_settings_history
    /\ index_settings_history[call.name][1].version >= 2
    /\ DOMAIN index_settings # {}

\* C7: once an index is deleted (absent from the current map, present in the
\* history), a save of a record of that name without a version succeeds, the
\* current record has version 1 and the history of the name holds nothing.
C7_RecreateAfterDelete ==
    [][(/\ SaveStep
        /\ call'.version = None
        /\ call'.name \notin DOMAIN index_settings
        /\ call'.name \in DOMAIN index_settings_history) =>
        /\ raised' = "none"
        /\ call'.name \in DOMAIN index_settings'
        /\ index_settings'[call'.name].version = 1
        /\ \/ call'.name \notin DOMAIN index_settings_history'
           \/ index_settings_history'[call'.name] = <<>>]_vars

\* A save without a version that found a history and no current record.
C7_Witness ==
    /\ call.op = "save"
    /\ call.version = None
    /\ ~call.existed
    /\ call.had_history
    /\ raised = "none"

----------------------------------------------------------------------------
(* Properties of two racing deploy workflows *)

OtherWriter(w) == CHOOSE o \in Writers : o # w

RaceDone == \A w \in Writers : writer[w].pc \in {"deployed", "failed"}

\* C8: two writers that both read the index at version C and both save a
\* record carrying version C: exactly one save is accepted, the other fails
\* with OperationConflictError, and the backend ends at version C + 1 holding
\* the accepted writer's record.
C8_ExactlyOneWriterAccepted ==
    RaceDone =>
        \E w \in Writers :
            /\ writer[w].pc = "deployed"
            /\ writer[OtherWriter(w)].pc = "failed"
            /\ writer[OtherWriter(w)].result = "OperationConflictError"
            /\ RaceName \in DOMAIN deployed.settings
            /\ deployed.settings[RaceName].version = writer[w].index_setting.version + 1
            /\ deployed.settings[RaceName].settings = writer[w].index_setting.settings

----------------------------------------------------------------------------
(* Properties of need_bootstrapping *)

\* The precedence of a version as one number (every part is below 100).
Precedence(version) ==
    10000 * version[1]
    + 100 * (IF Len(version) >= 2 THEN version[2] ELSE 0)
    + (IF Len(version) >= 3 THEN version[3] ELSE 0)

NeedBootstrappingCalled == pkg_call.op = "need_bootstrapping"

\* C9: need_bootstrapping returns true exactly when the new version is above
\* the deployed version, or below it with allow_downgrade set; it returns
\* false when the two are equal.  The deployed version is the one the call
\* resolves (AppVersion).
C9_NeedBootstrappingDecision ==
    NeedBootstrappingCalled =>
        LET new == Precedence(pkg_call.marqo_version)
            app == Precedence(AppVersion(is_configured, marqo_config,
                                         pkg_call.marqo_config_doc))
        IN  /\ pkg_call.result <=>
                   (new > app \/ (new < app /\ pkg_call.allow_downgrade))
            /\ (new = app) => ~pkg_call.result

\* A call with allow_downgrade set and a new version "2" that equals the
\* deployed "2.0.0" of marqo_config.json.
C9_Witness ==
    /\ NeedBootstrappingCalled
    /\ pkg_call.allow_downgrade
    /\ pkg_call.marqo_version = <<2>>
    /\ is_configured
    /\ marqo_config = <<MarqoConfig(<<2, 0, 0>>)>>
    /\ ~pkg_call.result

\* The package has a marqo_config.json: the file is in the directory and the
\* config store of the object holds the same config.
PackageHasConfig == marqo_config # <<>> /\ disk.marqo_config = marqo_config

\* The deployed version in the priority order of the contract: the version of
\* marqo_config.json of the package, else the legacy document, else 2.0.0.
ContractDeployedVersion(marqo_config_doc) ==
    IF PackageHasConfig
        THEN marqo_config[1].version
        ELSE IF marqo_config_doc # <<>>
                THEN marqo_config_doc[1].version
                ELSE <<2, 0, 0>>

AmendedDeployedVersion(marqo_config_doc) ==
    IF is_configured
        THEN marqo_config[1].version
        ELSE IF marqo_config_doc # <<>>
                THEN marqo_config_doc[1].version
                ELSE <<2, 0, 0>>

C11_NeedBootstrappingMonotone ==
    (NeedBootstrappingCalled /\ ~pkg_call.allow_downgrade /\ pkg_call.result) =>
        \A v2 \in VersionStrings :
            (Precedence(pkg_call.marqo_version) <= Precedence(v2)) =>
                need_bootstrapping(is_configured, marqo_config, v2,
                                   pkg_call.marqo_config_doc, FALSE)

\* A call without allow_downgrade at 2.0.1 on a package deployed at 2.0.0 that
\* returns true; 2.12 lies above it.
C11_Witness ==
    /\ NeedBootstrappingCalled
    /\ ~pkg_call.allow_downgrade
    /\ pkg_call.result
    /\ pkg_call.marqo_version = <<2, 0, 1>>
    /\ pkg_call.marqo_config_doc = <<>>
    /\ is_configured
    /\ marqo_config = <<MarqoConfig(<<2, 0, 0>>)>>

BootstrapStep == pkg_call'.op = "bootstrap"

\* C12: bootstrap on a package that was not configured, given a non-empty
\* list of legacy records with distinct names, completes and leaves every
\* supplied index in the store at version 1, whatever version the records
\* carry; on a package that was configured the records are not ingested and
\* the store is left as it was.  (Checked on a store that holds no index.)
C12_BootstrapIngestsLegacyAtVersionOne ==
    [][BootstrapStep =>
        /\ (~is_configured /\ pkg_call'.existing # <<>> /\ index_settings = EmptyDict
                /\ index_settings_history = EmptyDict) =>
               /\ pkg_call'.raised = "none"
               /\ \A i \in DOMAIN pkg_call'.existing :
                      LET name == pkg_call'.existing[i].name
                      IN  /\ name \in DOMAIN index_settings'
                          /\ index_settings'[name].version = 1
        /\ is_configured => UNCHANGED <<index_settings, index_settings_history>>]_vars

\* C13: after bootstrap(marqo_version) on a package whose marqo_config.json
\* holds a version and extra fields, the config has version marqo_version and
\* every extra field of the config before the call.
C13_BootstrapKeepsExtraFields ==
    [][(BootstrapStep /\ pkg_call'.raised = "none" /\ marqo_config # <<>>) =>
        /\ marqo_config' # <<>>
        /\ marqo_config'[1].version = pkg_call'.marqo_version
        /\ marqo_config[1].extra \subseteq marqo_config'[1].extra]_vars

----------------------------------------------------------------------------
(* Properties of the package files *)

AddStep == pkg_call'.op = "add_index_setting_and_schema"

DeletePackageStep == pkg_call'.op = "delete_index_setting_and_schema"

SaveToDiskStep == pkg_call'.op = "save_to_disk"

\* The number of document elements of a schema in the manifest.
DocumentCount(schema_name) ==
    Cardinality({i \in DOMAIN manifest.documents :
                    manifest.documents[i].type = schema_name})

\* C14: add_index_setting_and_schema makes the store's version check first:
\* it raises OperationConflictError exactly when the store's check fails, and
\* then no schema file is written or overwritten and the manifest (and the
\* store) are unchanged.
C14_ConflictWritesNoSchema ==
    [][AddStep =>
        /\ (pkg_call'.raised = "OperationConflictError") <=>
               (ContractTarget(pkg_call'.version) # ContractCurrent(pkg_call'.name) + 1)
        /\ (pkg_call'.raised # "none") =>
               UNCHANGED <<schemas, manifest, index_settings,
                           index_settings_history>>]_vars

\* A rejected add whose schema text differs from the schema file the package
\* holds for the index.
C14_Witness ==
    /\ pkg_call.op = "add_index_setting_and_schema"
    /\ pkg_call.raised = "OperationConflictError"
    /\ has_schema(SchemaName(pkg_call.name))
    /\ schemas[SchemaName(pkg_call.name)] # pkg_call.schema
    /\ DocumentCount(SchemaName(pkg_call.name)) >= 1

\* C15: delete_index_setting_and_schema for a name that has no current record
\* raises IndexNotFoundError and changes neither the store, the schema files,
\* the manifest nor validation-overrides.xml.
C15_DeleteUnknownChangesNothing ==
    [][(DeletePackageStep /\ pkg_call'.name \notin DOMAIN index_settings) =>
        /\ pkg_call'.raised = "IndexNotFoundError"
        /\ UNCHANGED <<index_settings, index_settings_history, schemas, manifest,
                       overrides>>]_vars

\* A delete of an unknown name on a package that holds another index, with
\* its schema file and document, and has never written the overrides file.
C15_Witness ==
    /\ pkg_call.op = "delete_index_setting_and_schema"
    /\ pkg_call.raised = "IndexNotFoundError"
    /\ ~has_index(pkg_call.name)
    /\ index_settings # EmptyDict
    /\ schemas # EmptyDict
    /\ manifest.documents # <<>>
    /\ overrides = <<>>

\* C16: after delete_index_setting_and_schema of an existing index, has_index
\* and has_schema are false for it, the manifest has no document of its
\* schema, the deleted record is the head of its history, and
\* validation-overrides.xml holds the override written by this call.
C16_DeleteRemovesIndexAndSchema ==
    [][\A n \in Names :
        (DeletePackageStep /\ pkg_call'.name = n /\ has_index(n)) =>
            /\ pkg_call'.raised = "none"
            /\ ~has_index(n)'
            /\ ~has_schema(SchemaName(n))'
            /\ DocumentCount(SchemaName(n))' = 0
            /\ n \in DOMAIN index_settings_history'
            /\ Len(index_settings_history'[n]) >= 1
            /\ index_settings_history'[n][1] = index_settings[n]
            /\ overrides' = <<pkg_call'.today>>]_vars

\* The second index is deleted a day after the first: both are in the
\* history and the overrides file holds the second day.
C16_Witness ==
    /\ pkg_call.op = "delete_index_setting_and_schema"
    /\ pkg_call.raised = "none"
    /\ pkg_call.name = "idx_b"
    /\ overrides = <<"2024-06-02">>
    /\ "idx_a" \in DOMAIN index_settings_history
    /\ "idx_b" \in DOMAIN index_settings_history
    /\ Len(index_settings_history["idx_b"]) >= 2
    /\ ~has_index("idx_a")
    /\ ~has_schema(SchemaName("idx_b"))

\* The four files save_to_disk writes, as the object holds them.
PackageInMemory ==
    [marqo_config |-> marqo_config, index_settings |-> index_settings,
     index_settings_history |-> index_settings_history, services_xml |-> manifest]

\* C17: save_to_disk is atomic: either services.xml, marqo_config.json and
\* the two index settings files are all written, or the call raises and none
\* of them has changed.
C17_SaveToDiskAtomic ==
    [][SaveToDiskStep =>
        IF pkg_call'.raised = "none"
            THEN disk' = PackageInMemory
            ELSE UNCHANGED disk]_vars

\* C18: the manifest holds at most one document element per schema name,
\* after any sequence of adds and deletes.
C18_OneDocumentPerSchema ==
    \A n \in Names : DocumentCount(SchemaName(n)) <= 1

----------------------------------------------------------------------------
(* Properties of the manifest *)

ConfigComponentsCalled == pkg_call.op = "config_components"

ChildrenWithTag(container, tag) == SelectSeq(container, LAMBDA c : c.tag = tag)

\* A search element that holds exactly one chain, 'marqo' inheriting from
\* 'vespa', with one searcher.
CanonicalSearch(search) ==
    /\ Len(search.children) = 1
    /\ search.children[1].tag = "chain"
    /\ search.children[1].id = "marqo"
    /\ search.children[1].attr = "inherits=vespa"
    /\ Len(search.children[1].children) = 1
    /\ search.children[1].children[1].tag = "searcher"
    /\ search.children[1].children[1].id = "ai.marqo.search.HybridSearcher"

\* The canonical form of the container.
CanonicalContainer(container) ==
    /\ \A i \in DOMAIN container :
           /\ container[i].tag \in {"node", "document-api", "search", "handler",
                                    "component"}
           /\ (container[i].tag = "document-api") => container[i].children = <<>>
           /\ (container[i].tag = "search") => CanonicalSearch(container[i])
    /\ Len(ChildrenWithTag(container, "search")) = 1
    /\ LET handlers == ChildrenWithTag(container, "handler")
       IN  /\ Len(handlers) = 1
           /\ handlers[1].id = "ai.marqo.index.IndexSettingRequestHandler"
           /\ Len(handlers[1].children) = 2
           /\ \A j \in 1 .. 2 : handlers[1].children[j].tag = "binding"
    /\ LET components == ChildrenWithTag(container, "component")
       IN  /\ Len(components) = 1
           /\ components[1].id = "ai.marqo.index.IndexSettings"

\* What config_components leaves, given the container the object was loaded
\* with: the call returned, the container is canonical, the node children are
\* the loaded ones, and one more call changes nothing.
ConfiguredContainer ==
    /\ pkg_call.raised = "none"
    /\ CanonicalContainer(manifest.container)
    /\ ChildrenWithTag(manifest.container, "node")
           = ChildrenWithTag(disk.services_xml.container, "node")
    /\ config_components(manifest.container)
           = [container |-> manifest.container, raised |-> "none"]

\* C19: after config_components has run, once or more, on a manifest with
\* exactly one container, the container is in its canonical form (node
\* children kept, other children but document-api and search removed, one
\* chain 'marqo' with one searcher in search, one index-settings handler with
\* two bindings, one index-settings component), and running it again changes
\* nothing.
C19_ConfigComponentsCanonical == ConfigComponentsCalled => ConfiguredContainer

\* C19 (amended): the same, on a manifest with exactly one container that
\* holds exactly one search element; with no search element or more than one,
\* config_components raises InternalError.
C19_ConfigComponentsCanonicalOneSearch ==
    ConfigComponentsCalled =>
        IF Len(ChildrenWithTag(manifest.container, "search")) = 1
            THEN ConfiguredContainer
            ELSE pkg_call.raised = "InternalError"

\* config_components has run on the container that was configured by hand:
\* two nodes are kept, the stale chain, the two handlers, the foreign
\* component and the http element are gone.
C19_Witness ==
    /\ ConfigComponentsCalled
    /\ pkg_call.raised = "none"
    /\ Len(disk.services_xml.container) = 8
    /\ Len(manifest.container) = 6
    /\ CanonicalContainer(manifest.container)

----------------------------------------------------------------------------
(* Properties of the document feed *)

FeedReturned == feed_result.state = "returned"

\* C20: for every batch and every completion order of the feed requests, the
\* responses feed_batch (and feed_batch_multithreaded) returns are in input
\* order: there is one response per document and the i-th response is the
\* response to the i-th document of the batch.
C20_ResponsesInInputOrder ==
    FeedReturned =>
        /\ Len(feed_result.responses) = Len(batch)
        /\ \A i \in DOMAIN batch :
               /\ feed_result.responses[i].id = batch[i]
               /\ feed_result.responses[i] = tasks[i].result

\* feed_batch has returned for a batch of three documents whose requests
\* completed in the order second, first, third, with different statuses.
C20_Witness ==
    /\ FeedReturned
    /\ feed_mode = "async"
    /\ batch = <<"d1", "d2", "d3">>
    /\ completed = <<2, 1, 3>>
    /\ feed_result.responses[1].status = "507"
    /\ feed_result.responses[2].status = "200"

FeedEnded == feed_result.state \in {"returned", "raised"}

\* The documents of the batch that did not get a 200 response.
NotFed == {i \in DOMAIN tasks : tasks[i].result.status # "200"}

\* C21: feed_batch never aborts on a failing document: for every non-empty
\* batch it returns a FeedBatchResponse with exactly one response per
\* document, whatever subset of the document feeds fails, and errors is true
\* exactly when at least one document did not get a 200 response.
C21_FeedBatchNeverAborts ==
    (FeedEnded /\ feed_mode = "async" /\ batch # <<>>) =>
        /\ feed_result.state = "returned"
        /\ Len(feed_result.responses) = Len(batch)
        /\ feed_result.errors <=> (NotFed # {})

\* The feed requests in flight.
InFlight == {i \in DOMAIN tasks : tasks[i].pc = "in_flight"}

\* C22: during an asynchronous feed_batch with concurrency limit n, at most n
\* feed requests are in flight at every moment, and every document of the
\* batch is eventually sent, exactly once (a request that was sent is not
\* sent again).
C22_BoundedInFlightAllSentOnce ==
    /\ [](feed_mode = "async" => Cardinality(InFlight) <= connections)
    /\ [][\A i \in DOMAIN tasks :
            /\ (tasks[i].pc # "created") => (tasks'[i].pc # "created")
            /\ (tasks[i].pc = "done") => (tasks'[i].pc = "done")]_vars
    /\ <>(\A i \in DOMAIN tasks : tasks[i].pc \in {"in_flight", "done"})

\* Two requests of a batch of three are in flight with limit 2; the third
\* document waits for a permit.
C22_Witness ==
    /\ feed_mode = "async"
    /\ connections = 2
    /\ Len(batch) = 3
    /\ Cardinality(InFlight) = 2
    /\ semaphore = 0
    /\ \E i \in DOMAIN tasks : tasks[i].pc = "created"

----------------------------------------------------------------------------
(* Properties of the error mapping *)

\* The body is not JSON, or has no error-code or no message.
BodyWithoutError(body) == ~body.json \/ {"error-code", "message"} \ body.keys # {}

\* C23: when the backend answers with a non-2xx status and a body that is not
\* JSON (or has no error-code/message), _raise_for_status raises a
\* VespaStatusError whose status_code is the HTTP status of the response.
C23_StatusErrorCarriesHttpStatus ==
    (IsErrorStatus(response.status) /\ BodyWithoutError(response.body)) =>
        /\ (status_call.op # "none") =>
               /\ status_call.raises # <<>>
               /\ status_call.raises[1].type = "VespaStatusError"
        /\ (status_call.op = "status_code") =>
               /\ status_call.result.raised = "none"
               /\ status_call.result.value = response.status

----------------------------------------------------------------------------
(* Properties of the model cache *)

Loading(t) == threads[t].pc \in {"locked", "validated"}

\* C24: model loads are mutually exclusive, and a thread that attempts a load
\* while another thread's load is in progress is rejected with the cache-busy
\* ModelCacheManagementError: no thread is validating or loading after having
\* waited for the lock, and at most one thread is validating or loading.
C24_LoadsExclusiveNeverWaiting == /\ Cardinality({t \in Threads : Loading(t)}) <= 1
                                  /\ \A t \in Threads : Loading(t) => ~threads[t].waited

ValidateStep(t) == threads[t].pc = "locked" /\ threads'[t].pc # "locked"

IsCapacityError(result) == result \in {"ModelCacheManagementError: CANNOT find enough space", "ModelCacheManagementError: larger than the device threshold"}

\* the model of this size fits the device next to the cache entries
Fits(models, device, model_size) == used_memory(models, device) + model_size < threshold(device)

Ascending(models, keys) == \A i \in 1..Len(keys), j \in 1..Len(keys) : i < j => models[keys[i]].most_recently_used_time < models[keys[j]].most_recently_used_time

\* C25: when a load would exceed the device's budget, entries of that device
\* are evicted one at a time in ascending most-recently-used time, stopping as
\* soon as the new model fits; entries of other devices are never evicted; when
\* the model still does not fit, the load fails with a capacity
\* ModelCacheManagementError.
C25_EvictsLeastRecentlyUsedUntilFits == [][\A t \in Threads : ValidateStep(t) => LET key == threads[t].key
                                                                                    size == get_model_size(key.model)
                                                                                    evicted == cache_call'.evicted
                                                                                    gone == DOMAIN available_models \ DOMAIN available_models'
                                                                                IN /\ DOMAIN available_models' \subseteq DOMAIN available_models
                                                                                   /\ \A k \in DOMAIN available_models' : available_models'[k] = available_models[k]
                                                                                   /\ gone = {evicted[i] : i \in 1..Len(evicted)}
                                                                                   /\ \A k \in gone : k.device = key.device
                                                                                   /\ Ascending(available_models, evicted)
                                                                                   /\ \A e \in gone, k \in KeysOfDevice(available_models', key.device) : available_models[e].most_recently_used_time < available_models[k].most_recently_used_time
                                                                                   /\ Fits(available_models, key.device, size) => gone = {}
                                                                                   /\ gone # {} => used_memory(available_models', key.device) + available_models[evicted[Len(evicted)]].model_size + size >= threshold(key.device)
                                                                                   /\ threads'[t].pc = "validated" <=> Fits(available_models', key.device, size)
                                                                                   /\ ~Fits(available_models', key.device, size) => threads'[t].pc = "idle" /\ IsCapacityError(threads'[t].result) /\ lock' = ""]_vars

\* one entry was evicted for m3 on cpu: m2, and not m1, which was loaded
\* before m2 and renewed after it
C25_Witness == /\ cache_call.op = "_validate_model_into_device"
               /\ cache_call.key = [model |-> "m3", device |-> "cpu"]
               /\ cache_call.evicted = <<[model |-> "m2", device |-> "cpu"]>>
               /\ cache_call.raised = ""
               /\ [model |-> "m1", device |-> "cpu"] \in DOMAIN available_models
               /\ \E t \in Threads : threads[t].pc = "validated"

----------------------------------------------------------------------------
(* Properties of the document translation *)

\* C26: round trip: for every index and every logical document that is valid
\* against it, to_marqo_document(to_vespa_document(d, D), D) equals d.
C26_RoundTrip == index_call.op = "to_marqo_document" => index_call.result = <<index_call.document>>

UndeclaredField(document, index) == \E i \in 1..Len(document.fields) : document.fields[i].name \notin FieldNames(index.fields)

NotATensorField(document, index) == document.tensors # <<>> /\ \E i \in 1..Len(document.tensors[1]) : document.tensors[1][i].name \notin Members(index.tensor_fields)

\* C27: structured to_vespa_document fails with InvalidFieldNameError, and
\* produces no backend document, for every document that has a top-level field
\* not declared in the index or a _tensors entry whose name is not a tensor
\* field of the index.
C27_UndeclaredNamesRejected == (index_call.op = "to_vespa_document" /\ marqo_index.type = "Structured" /\ (UndeclaredField(index_call.document, marqo_index) \/ NotATensorField(index_call.document, marqo_index))) => index_call.result.raised = "InvalidFieldNameError"

----------------------------------------------------------------------------
(* Properties of to_vespa_query *)

QueryCompiled == index_call.op = "to_vespa_query" /\ index_call.raised = ""

\* C28: when a query carries an attributes-to-retrieve list L, the list used
\* for the backend query is L, followed by the id field and by the chunk
\* storage field of every tensor field named in L; when the query carries no
\* list, none is created.
C28_AttributesToRetrieveExpanded == QueryCompiled => IF index_call.before = <<>> THEN marqo_query.attributes_to_retrieve = <<>> ELSE /\ marqo_query.attributes_to_retrieve # <<>>
                                                                                                                                     /\ LET L == index_call.before[1]
                                                                                                                                            used == marqo_query.attributes_to_retrieve[1]
                                                                                                                                        IN /\ Len(used) >= Len(L) + 1
                                                                                                                                           /\ SubSeq(used, 1, Len(L)) = L
                                                                                                                                           /\ VESPA_FIELD_ID \in Members(used)
                                                                                                                                           /\ \A i \in 1..Len(L) : InTensorFieldMap(L[i], marqo_index) => chunk_field_name(L[i].name) \in Members(used)
                                                                                                                                           /\ Members(used) \subseteq Members(L) \cup {VESPA_FIELD_ID} \cup {chunk_field_name(name) : name \in Members(marqo_index.tensor_fields)}

\* title is a tensor field and price is not: the list becomes title, price,
\* the id field, the chunk field of title
C28_Witness == /\ QueryCompiled
               /\ index_call.before = <<<<LogicalName("title"), LogicalName("price")>>>>
               /\ "title" \in Members(marqo_index.tensor_fields)
               /\ marqo_query.attributes_to_retrieve = <<<<LogicalName("title"), LogicalName("price"), VESPA_FIELD_ID, chunk_field_name("title")>>>>

----------------------------------------------------------------------------
(* Properties of the schema generator and of the type maps *)

SectionOrder(section) == CASE section = "schema" -> 0 [] section = "document" -> 1 [] section = "fieldset" -> 2 [] section = "document-summary" -> 3 [] OTHER -> 4

PartOrder(part) == CASE part = "open" -> 0 [] part = "field" -> 1 [] part = "score-modifiers" -> 2 [] part = "chunks" -> 3 [] part = "embeddings" -> 3 [] OTHER -> 4

\* C29: generate_schema emits the sections in this order: the document block
\* (fields, then the score-modifier tensor, then the chunk/embedding pair of
\* each tensor field), then the default fieldset, then the summaries, then the
\* rank profiles.
C29_SchemaSectionsInOrder == (index_call.op = "generate_schema" /\ index_call.result.raised = "") => LET schema == index_call.result.value
                                                                                                      IN /\ \A i \in 1..Len(schema) - 1, j \in 1..Len(schema) - 1 : i < j => SectionOrder(schema[i].section) <= SectionOrder(schema[j].section)
                                                                                                         /\ \A i \in 1..Len(schema), j \in 1..Len(schema) : (i < j /\ schema[i].section = "document" /\ schema[j].section = "document") => PartOrder(schema[i].part) <= PartOrder(schema[j].part)
                                                                                                         /\ \A i \in 1..Len(schema) : schema[i].part = "chunks" => (schema[i + 1].part = "embeddings" /\ schema[i + 1].name.name = schema[i].name.name)

\* C30: the field-type mapping and the distance-metric mapping are total over
\* FieldType and DistanceMetric, and an input outside the mapping fails with
\* InternalError.
C30_TypeMapsTotal == /\ index_call.op = "_get_vespa_type" => IF index_call.input \in FieldTypes THEN index_call.result.raised = "" ELSE index_call.result.raised = "InternalError"
                     /\ index_call.op = "_get_distance_metric" => IF index_call.input \in DistanceMetrics THEN index_call.result.raised = "" ELSE index_call.result.raised = "InternalError"

\* C31: to_vespa_query dispatches on the query kind with hybrid checked first:
\* a hybrid query goes to the hybrid compiler, a tensor query to the tensor
\* compiler, a lexical query to the lexical compiler, and a query of any other
\* kind fails with InternalError.
C31_DispatchHybridFirst == (index_call.op = "to_vespa_query" /\ marqo_index.type = "SemiStructured") => CASE marqo_query.type = "MarqoHybridQuery" -> index_call.raised = "" /\ index_call.compiler = "_to_vespa_hybrid_query"
                                                                                                          [] marqo_query.type = "MarqoTensorQuery" -> index_call.raised = "" /\ index_call.compiler = "_to_vespa_tensor_query"
                                                                                                          [] marqo_query.type = "MarqoLexicalQuery" -> index_call.raised = "" /\ index_call.compiler = "_to_vespa_lexical_query"
                                                                                                          [] OTHER -> index_call.raised = "InternalError" /\ index_call.compiler = ""

\* a hybrid query, which is also a tensor and a lexical query, was compiled
C31_Witness == /\ index_call.op = "to_vespa_query"
               /\ marqo_index.type = "SemiStructured"
               /\ marqo_query.type = "MarqoHybridQuery"
               /\ index_call.compiler = "_to_vespa_hybrid_query"

\* C39: to_vespa_query leaves the caller's query object unchanged: after the
\* call the attributes-to-retrieve list of the query object is the list it was
\* called with, so a second call on the same object adds no entry again.
C39_QueryObjectUnchanged == index_call.op = "to_vespa_query" => marqo_query.attributes_to_retrieve = index_call.before

\* C32: for every declared field f and value v of a valid document,
\* to_vespa_document writes v under f's lexical storage name exactly when f
\* has LexicalSearch, under f's filter storage name exactly when f has Filter,
\* and under the plain field name exactly when f has neither, whether or not
\* generate_schema was called on the descriptor before.
C32_ValuesRoutedByFeatures == (index_call.op = "to_vespa_document" /\ index_call.result.raised = "") => LET written == index_call.result.value.fields
                                                                                                            document == index_call.document
                                                                                                        IN \A i \in 1..Len(document.fields) : LET f == field_map(marqo_index, document.fields[i].name)
                                                                                                                                                  v == document.fields[i].value
                                                                                                                                              IN /\ "LexicalSearch" \in f.features <=> (lexical_field_name(f) \in DOMAIN written /\ written[lexical_field_name(f)] = v)
                                                                                                                                                 /\ "Filter" \in f.features <=> (filter_field_name(f) \in DOMAIN written /\ written[filter_field_name(f)] = v)
                                                                                                                                                 /\ ("LexicalSearch" \notin f.features /\ "Filter" \notin f.features) <=> (LogicalName(f.name) \in DOMAIN written /\ written[LogicalName(f.name)] = v)

\* the same for the translations made after generate_schema ran on the index
RoutedByFeaturesAfterGenerateSchema == (\A i \in 1..Len(marqo_index.fields) : marqo_index.fields[i].lexical_field_name = lexical_field_name(marqo_index.fields[i]) /\ marqo_index.fields[i].filter_field_name = filter_field_name(marqo_index.fields[i])) => C32_ValuesRoutedByFeatures

----------------------------------------------------------------------------
(* Consistency of the package: store, schemas directory and manifest *)

\* C33: after any sequence of add_index_setting_and_schema and
\* delete_index_setting_and_schema calls, successful or failing, has_index(name)
\* holds exactly when has_schema(schema_name of name) holds and exactly when
\* the manifest has a document element of that schema type.
C33_StoreSchemasManifestAgree == \A n \in Names : /\ has_index(n) <=> has_schema(SchemaName(n))
                                                  /\ has_index(n) <=> DocumentCount(SchemaName(n)) >= 1

\* idx_a was deleted and idx_b is in the package after a rejected call
C33_Witness == /\ pkg_call.op \in {"add_index_setting_and_schema", "delete_index_setting_and_schema"}
               /\ pkg_call.raised # "none"
               /\ has_index("idx_b")
               /\ ~has_index("idx_a")
               /\ "idx_a" \in DOMAIN index_settings_history

\* A need_bootstrapping call made right after a completed bootstrap of the
\* same version on the same object
NeedAfterBootstrap ==
    /\ pkg_call.op = "bootstrap"
    /\ pkg_call.raised = "none"
    /\ pkg_call'.op = "need_bootstrapping"
    /\ pkg_call'.marqo_version = pkg_call.marqo_version

HistoryOf(name) ==
    IF name \in DOMAIN index_settings_history
        THEN index_settings_history[name]
        ELSE <<>>

\* C35: starting from an empty store, for every name in the current map the
\* current version is at least 1, every record of the name's history has a
\* strictly lower version, and a non-empty history has at its head the record
\* of version current - 1.
C35_HistoryBelowCurrent ==
    \A name \in DOMAIN index_settings :
        /\ index_settings[name].version >= 1
        /\ \A i \in 1 .. Len(HistoryOf(name)) :
               HistoryOf(name)[i].version < index_settings[name].version
        /\ HistoryOf(name) # <<>> =>
               HistoryOf(name)[1].version = index_settings[name].version - 1

C35_Witness ==
    /\ "idx_a" \in DOMAIN index_settings
    /\ index_settings["idx_a"].version = 4
    /\ Len(HistoryOf("idx_a")) = _HISTORY_VERSION_LIMIT
    /\ "idx_b" \in DOMAIN index_settings
    /\ index_settings["idx_b"].version = 1
    /\ call.op = "save"
    /\ call.name = "idx_b"
    /\ call.had_history
    /\ HistoryOf("idx_b") = <<>>

\* C36: a model load that fails with the capacity ModelCacheManagementError
\* evicts nothing: the cached models after the failed load are the cached
\* models before it, for every model size including one equal to the
\* device threshold.
C36_CapacityFailureEvictsNothing ==
    [][\A t \in Threads :
           (ValidateStep(t) /\ IsCapacityError(threads'[t].result)) =>
               DOMAIN available_models' = DOMAIN available_models]_vars

Devices == {"cpu", "cuda"}

\* C37: with a constant device threshold, after any sequence and interleaving
\* of model loads, cache hits, eject_model and clear_loaded_models calls, the
\* sum of the sizes of the models cached on a cpu or cuda device is strictly
\* below that device's threshold.
C37_UsedMemoryBelowThreshold ==
    \A device \in Devices : used_memory(available_models, device) < threshold(device)

\* the cpu holds models of total size 3 next to a model on cuda that eject_model
\* has just removed
C37_Witness ==
    /\ cache_call.op = "eject_model"
    /\ cache_call.raised = ""
    /\ cache_call.key.device = "cuda"
    /\ used_memory(available_models, "cpu") = 3
    /\ \E t \in Threads : threads[t].result = "vectorised"

\* the read of line 63 of vectorise, made by thread t
ReadStep(t) == threads[t].pc = "updated" /\ threads'[t].pc = "idle"

\* C38: under every interleaving of concurrent vectorise calls, once
\* _update_available_models has returned for a cache key, the read of that
\* key's model in the same vectorise call finds the entry: no eviction of a
\* concurrent load and no eject_model removes it between the update and the
\* read, and the request does not fail with a missing-key error.
C38_ReadAfterUpdateFindsEntry ==
    [][\A t \in Threads : ReadStep(t) => threads'[t].result = "vectorised"]_vars

DownloadImagesCalled == download_call.op = "download_images"

\* C40: for every non-empty list of documents and every thread_count >= 1,
\* download_images returns without raising a list with one document per
\* input document in input order, and leaves the input documents unmodified.
C40_DownloadReturnsEveryDocument ==
    (DownloadImagesCalled /\ download_call.docs # <<>> /\ download_call.thread_count >= 1) =>
        /\ download_call.result.raised = ""
        /\ Len(download_call.result.value) = Len(download_call.docs)
        /\ \A i \in 1..Len(download_call.docs) :
               \A field \in DOMAIN download_call.docs[i] :
                   \/ download_call.result.value[i][field] = download_call.docs[i][field]
                   \/ /\ IsImagePointer(download_call.docs[i][field])
                      /\ download_call.result.value[i][field] = LoadedImage(download_call.docs[i][field])
        /\ docs = download_call.docs

\* what holds of the code: a list of one document comes back whole
DownloadOfOneDocument ==
    (DownloadImagesCalled /\ Len(download_call.docs) = 1) =>
        /\ download_call.result.raised = ""
        /\ download_call.result.value = threaded_download_images(download_call.docs)
        /\ docs = download_call.docs

====
